---- MODULE Spec2Model ----
(***************************************************************************)
(* A model of the GitHub API client of Session1/AzFunction/queryGitHub.py: *)
(* the retry decorator, the response interpreter, the owner-type probe,    *)
(* the page loops of the listing operations and the search pager.          *)
(*                                                                         *)
(* One client runs one facade operation at a time.  pc is the position of  *)
(* the call chain: "idle" (no call), "request" (inside the retry wrapper,  *)
(* about to call the wrapped function), "backoff" (about to sleep),        *)
(* "resume" (_make_request has returned or raised, its caller continues),  *)
(* "done" (the facade operation has returned or raised).                   *)
(*                                                                         *)
(* Texts (response bodies, exception messages) are modelled by the set of  *)
(* the phrases "rate limit", "rate limit exceeded", "not found" that occur *)
(* in their lower-cased form: that is all the code reads of them.          *)
(*                                                                         *)
(* client holds the attributes the constructor sets; host is the position  *)
(* of a hosting function of function_app.py, which makes its calls on the  *)
(* client one after the other; waiting holds the call frame of a second    *)
(* thread in the behaviours in which two threads share the client.         *)
(***************************************************************************)
EXTENDS Integers, Sequences, FiniteSets, TLC

VARIABLES
    pc,           \* position of the call chain
    op,           \* the facade operation in progress ("none" when idle)
    phase,        \* where that operation is: "detect_org", "detect_user", "list", ...
    provider,     \* what the remote API holds (fixed for one operation)
    endpoint,     \* _make_request: endpoint of the logical request in progress
    params,       \* _make_request: its query parameters
    attempt,      \* wrapper: the loop variable of the retry loop
    response,     \* the outcome of the last transport call (session.get)
    data,         \* the value _make_request returned
    exc,          \* the exception in flight (raised by the last call), or NoExc
    invocations,  \* transport calls made by the logical request in progress
    sleeps,       \* the delays slept by the logical request in progress, in order
    args,         \* the arguments the facade operation was called with
    owner_type,   \* get_repositories: owner_type (reassigned by the auto-detection)
    page,         \* the page loops: page
    repositories, \* the page loops: the accumulator list
    requests,     \* the logical requests issued by the operation: <<endpoint, params>>
    probes,       \* how the org and the user probe of _detect_owner_type ended (a
                  \* failure class, "Decoded" for a success, "none" when not made)
    result,       \* the value the facade operation returned
    raised,       \* the exception the facade operation raised, or NoExc
    history,      \* history variable: what the probes of the resolution in progress
                  \* were answered, and the previous resolution (kept only in the
                  \* behaviours that compare two resolutions)
    environ,      \* os.environ: the value of GITHUB_TOKEN ("" when it is not set)
    client,       \* the GitHubAPIClient instance: token, base_url, session.headers
    host,         \* the hosting function in progress (function_app.py)
    waiting       \* the call of the other thread, while this thread's call runs

vars == <<pc, op, phase, provider, endpoint, params, attempt, response, data, exc,
          invocations, sleeps, args, owner_type, page, repositories, requests,
          probes, result, raised, history, environ, client, host, waiting>>

\* what no step of a facade operation assigns: the environment, the attributes of
\* the client, the locals of the hosting function and of the other thread
outerVars == <<environ, client, host, waiting>>

\* the state of the logical request in progress
reqVars == <<endpoint, params, attempt, response, data, exc, invocations, sleeps, requests>>
\* the arguments and local variables of the facade operation in progress
callVars == <<args, owner_type, page, repositories>>

-----------------------------------------------------------------------------
(* Bounds of the model *)

\* the largest total of a provider's short item list
MaxItems == 5
\* the largest total of the list of an owner whose kind is probed
MaxOwnerItems == 1

(* Program constants *)

\* @retry_with_exponential_backoff(max_retries=3)
max_retries == 3
\* base_delay: float = 1.0
base_delay == 1
\* min(per_page, 100): the provider's page-size ceiling
GitHubMaxPerPage == 100
\* if page > 100: the page-count safety ceiling of the listings
MaxPages == 100
\* if page > 10: the page ceiling of the search pager
SearchMaxPages == 10

Min(a, b) == IF a < b THEN a ELSE b

RECURSIVE Pow2(_)
Pow2(n) == IF n = 0 THEN 1 ELSE 2 * Pow2(n - 1)

-----------------------------------------------------------------------------
(* Texts and exceptions *)

\* the texts a response body can carry: "rate limit exceeded" contains "rate limit"
BodyTexts == { {}, {"rate limit"}, {"rate limit", "rate limit exceeded"}, {"not found"} }

NoExc == [cls |-> "none", msg |-> "", words |-> {}]

Exc(cls, msg, words) == [cls |-> cls, msg |-> msg, words |-> words]

\* class RateLimitError(GitHubAPIError): an except GitHubAPIError clause catches both
IsGitHubAPIError(e) == e.cls \in {"GitHubAPIError", "RateLimitError"}

\* requests.exceptions.Timeout and ConnectionError are RequestExceptions
IsRequestException(e) == e.cls \in {"RequestException", "Timeout", "ConnectionError"}

-----------------------------------------------------------------------------
(* Payloads: the decoded JSON of a response *)

NoData == [type |-> "none", keys |-> {}, items |-> <<>>]

ListData(items) == [type |-> "list", keys |-> {}, items |-> items]

DictData(keys, items) == [type |-> "dict", keys |-> keys, items |-> items]

\* a text (a Python str): the sequence of its code points
TextData(text) == [type |-> "text", keys |-> {}, items |-> text]

\* the UTF-8 encoding of a text of code points below 65536
RECURSIVE Utf8Encode(_)
Utf8Encode(text) ==
    IF text = <<>> THEN <<>>
    ELSE LET c == text[1]
         IN  (IF c < 128 THEN <<c>>
              ELSE IF c < 2048 THEN <<192 + (c \div 64), 128 + (c % 64)>>
              ELSE <<224 + (c \div 4096), 128 + ((c \div 64) % 64), 128 + (c % 64)>>)
             \o Utf8Encode(Tail(text))

\* bytes.decode('utf-8') of well-formed input
RECURSIVE Utf8Decode(_)
Utf8Decode(bytes) ==
    IF bytes = <<>> THEN <<>>
    ELSE IF bytes[1] < 128 THEN <<bytes[1]>> \o Utf8Decode(Tail(bytes))
    ELSE IF bytes[1] < 224
    THEN <<(bytes[1] - 192) * 64 + (bytes[2] - 128)>>
         \o Utf8Decode(SubSeq(bytes, 3, Len(bytes)))
    ELSE <<(bytes[1] - 224) * 4096 + (bytes[2] - 128) * 64 + (bytes[3] - 128)>>
         \o Utf8Decode(SubSeq(bytes, 4, Len(bytes)))

\* base64: 3 bytes make 4 digits of 6 bits; 64 stands for the padding sign '='
RECURSIVE B64Encode(_)
B64Encode(bytes) ==
    IF bytes = <<>> THEN <<>>
    ELSE IF Len(bytes) = 1
    THEN <<bytes[1] \div 4, (bytes[1] % 4) * 16, 64, 64>>
    ELSE IF Len(bytes) = 2
    THEN <<bytes[1] \div 4, (bytes[1] % 4) * 16 + bytes[2] \div 16, (bytes[2] % 16) * 4, 64>>
    ELSE <<bytes[1] \div 4, (bytes[1] % 4) * 16 + bytes[2] \div 16,
           (bytes[2] % 16) * 4 + bytes[3] \div 64, bytes[3] % 64>>
         \o B64Encode(SubSeq(bytes, 4, Len(bytes)))

\* (mutant) the padding signs are decoded as digits
RECURSIVE B64DecodePadding(_)
B64DecodePadding(digits) ==
    IF Len(digits) < 4 THEN <<>>
    ELSE LET d == SubSeq(digits, 1, 4)
         IN  <<(d[1] * 4) + (d[2] \div 16), (((d[2] % 16) * 16) + (d[3] \div 4)) % 256,
               (((d[3] % 4) * 64) + d[4]) % 256>>
             \o B64DecodePadding(SubSeq(digits, 5, Len(digits)))

\* base64.b64decode of well-formed input
RECURSIVE B64Decode(_)
B64Decode(digits) ==
    IF Len(digits) < 4 THEN <<>>
    ELSE LET d == SubSeq(digits, 1, 4)
             b1 == d[1] * 4 + d[2] \div 16
             b2 == (d[2] % 16) * 16 + d[3] \div 4
             b3 == (d[3] % 4) * 64 + d[4]
         IN  (IF d[3] = 64 THEN <<b1>> ELSE IF d[4] = 64 THEN <<b1, b2>> ELSE <<b1, b2, b3>>)
             \o B64Decode(SubSeq(digits, 5, Len(digits)))

\* Python truth value of a decoded payload: an empty list or dict is false
Truthy(d) == IF d.type = "list" THEN d.items # <<>> ELSE d.keys # {}

-----------------------------------------------------------------------------
(* The provider: what the remote API answers when nothing fails *)

\* a transport outcome: an exception of session.get, or a response
Raises(name) == [exc |-> name, status |-> 0, text |-> {}, json |-> FALSE]
Response(status, text, json) == [exc |-> "none", status |-> status, text |-> text, json |-> json]
NoResponse == Raises("none")

\* what the transport can do whatever the provider holds
TransportFaults ==
    {Raises("Timeout"), Raises("ConnectionError"), Raises("RequestException")}
    \cup {Response(403, t, TRUE) : t \in BodyTexts \ {{"not found"}}}
    \cup {Response(500, t, TRUE) : t \in BodyTexts \ {{"rate limit"}}}
    \cup {Response(200, {}, FALSE)}

\* the text "# Hi"
ReadmeText == <<35, 32, 72, 105>>

\* total: the length of the item list it serves in pages; endless: it always
\* serves a full page instead; org, user: whether the owner name is an
\* organization, a user; prs: the items of the list that carry a pull_request
\* field; reliable: every transport call to it is answered 200 with the payload;
\* readme: the text of the README file of its repositories; faults: what the
\* transport in front of it can do wrong; fixed: the pages whose every request
\* is answered the same, with that answer; content: the answer to a README
\* request has a content field; shuffled: its list is neither sorted nor free
\* of repetitions
ProviderOf(total, endless, org, user, prs, reliable) ==
    [total |-> total, endless |-> endless, org |-> org, user |-> user, prs |-> prs,
     reliable |-> reliable, readme |-> ReadmeText, faults |-> TransportFaults,
     fixed |-> <<>>, content |-> TRUE, shuffled |-> FALSE]

\* the item at position n of the provider's list: the items are numbered in
\* provider order, but for a shuffled list, which goes 3, 2, 1, 3, 2, 1, ...
ItemAt(prov, n) == IF prov.shuffled THEN ((2 * n) % 3) + 1 ELSE n

\* page p of size s of the provider's list of total items (an endless provider
\* always has a full page)
PageItems(prov, p, s) ==
    LET first == (p - 1) * s + 1
        last  == IF prov.endless THEN p * s ELSE Min(p * s, prov.total)
    IN  IF last < first THEN <<>>
        ELSE [i \in 1..(last - first + 1) |-> ItemAt(prov, first + i - 1)]

\* an endpoint is the sequence of the segments of its path
IsOrgProbe(ep) == Len(ep) = 2 /\ ep[1] = "orgs"
IsUserProbe(ep) == Len(ep) = 2 /\ ep[1] = "users"
IsListing(ep) ==
    \/ Len(ep) = 3 /\ ep[1] \in {"orgs", "users"} /\ ep[3] = "repos"
    \/ Len(ep) = 4 /\ ep[1] = "repos" /\ ep[4] \in {"issues", "pulls", "contributors"}
IsSearch(ep) == ep = <<"search", "repositories">>
IsReadme(ep) == Len(ep) = 4 /\ ep[1] = "repos" /\ ep[4] = "readme"

\* a request that names no page is served the first one
PageAsked(ps) == IF ps.page = 0 THEN 1 ELSE ps.page

\* the payload of a 200 answer to a request
ProviderData(prov, ep, ps) ==
    IF IsListing(ep) THEN ListData(PageItems(prov, PageAsked(ps), ps.per_page))
    ELSE IF IsSearch(ep)
         THEN DictData({"total_count", "items"}, PageItems(prov, PageAsked(ps), ps.per_page))
    ELSE IF IsReadme(ep)
         THEN IF prov.content
              THEN DictData({"content", "encoding"}, B64Encode(Utf8Encode(prov.readme)))
              ELSE DictData({"message"}, <<>>)
    ELSE DictData({"login"}, <<>>)

\* the answer of a provider that works
HonestResponses(prov, ep) ==
    IF IsOrgProbe(ep)
    THEN {IF prov.org THEN Response(200, {}, TRUE) ELSE Response(404, {"not found"}, TRUE)}
    ELSE IF IsUserProbe(ep)
    THEN {IF prov.user THEN Response(200, {}, TRUE) ELSE Response(404, {"not found"}, TRUE)}
    ELSE {Response(200, {}, TRUE), Response(404, {"not found"}, TRUE)}

TransportOutcomes(prov, ep, ps) ==
    IF prov.reliable THEN {Response(200, {}, TRUE)}
    ELSE IF PageAsked(ps) \in DOMAIN prov.fixed THEN {prov.fixed[PageAsked(ps)]}
    ELSE prov.faults \cup HonestResponses(prov, ep)

-----------------------------------------------------------------------------
(* _handle_response and _make_request: the result of one call is a return or a raise *)

Return(d) == [kind |-> "return", data |-> d, exc |-> NoExc]
Raise(e) == [kind |-> "raise", data |-> NoData, exc |-> e]

\* response.ok
ResponseOk(status) == status < 400

\* (mutant) the test of response.ok comes first: every 403 is a plain API error
HandleResponseOkFirst(r, d) ==
    IF r.status # 404 /\ ~ResponseOk(r.status)
    THEN Raise(Exc("GitHubAPIError", "GitHub API error", r.text))
    ELSE IF r.status = 403 /\ "rate limit exceeded" \in r.text
    THEN Raise(Exc("RateLimitError", "Rate limit exceeded", {"rate limit", "rate limit exceeded"}))
    ELSE IF r.status = 404
    THEN Raise(Exc("GitHubAPIError", "Resource not found", {"not found"}))
    ELSE IF r.json THEN Return(d)
    ELSE Raise(Exc("GitHubAPIError", "Invalid JSON response", {}))

\* _handle_response(response); d is what response.json() decodes to
HandleResponse(r, d) ==
    IF r.status = 403 /\ "rate limit exceeded" \in r.text
    THEN Raise(Exc("RateLimitError", "Rate limit exceeded", {"rate limit", "rate limit exceeded"}))
    ELSE IF r.status = 404
    THEN Raise(Exc("GitHubAPIError", "Resource not found", {"not found"}))
    ELSE IF ~ResponseOk(r.status)
    THEN Raise(Exc("GitHubAPIError", "GitHub API error", r.text))
    ELSE IF r.json THEN Return(d)
    ELSE Raise(Exc("GitHubAPIError", "Invalid JSON response", {}))

\* the body of _make_request (the wrapped function) on transport outcome t
MakeRequestBody(t, d) ==
    IF t.exc = "Timeout" THEN Raise(Exc("GitHubAPIError", "Request timeout", {}))
    ELSE IF t.exc = "ConnectionError" THEN Raise(Exc("GitHubAPIError", "Connection error", {}))
    ELSE IF t.exc # "none" THEN Raise(Exc(t.exc, "", {}))
    ELSE HandleResponse(t, d)

-----------------------------------------------------------------------------
(* The failure classes of the specification, read off a transport outcome *)

FailureKind(t) ==
    IF t.exc \in {"Timeout", "ConnectionError", "RequestException"} THEN "Transient"
    ELSE IF t.status = 0 THEN "none"
    ELSE IF t.status = 403 /\ "rate limit exceeded" \in t.text THEN "RateLimited"
    ELSE IF t.status = 404 THEN "NotFound"
    ELSE IF t.status >= 400 THEN "Generic"
    ELSE IF ~t.json THEN "Malformed"
    ELSE "Decoded"

-----------------------------------------------------------------------------
(* retry_with_exponential_backoff: the wrapper around _make_request *)

\* (mutant) except Exception: every failure is retried
RetryableAny(e) == e.cls # "none"

\* except (requests.exceptions.RequestException, RateLimitError)
Retryable(e) == IsRequestException(e) \/ e.cls = "RateLimitError"

\* (mutant) if attempt > max_retries: the last attempt's failure is slept on too
RetriesExhaustedLate(a) == a > max_retries

\* if attempt == max_retries: raise
RetriesExhausted(a) == a = max_retries

\* (mutant) delay = base_delay * (4 ** attempt)
DelayQuadrupling(a) == base_delay * Pow2(2 * a)

\* (mutant) delay = base_delay * (2 * attempt)
DelayLinear(a) == base_delay * (2 * a)

\* delay = base_delay * (2 ** attempt)
Delay(a) == base_delay * Pow2(a)

\* for attempt in range(max_retries + 1)
InRetryLoop(a) == a \in 0..max_retries

(* The history of the resolutions of owner types *)

\* no resolution
NoResolution == [made |-> FALSE, name |-> "", trace |-> <<>>, kind |-> "", raised |-> NoExc]

\* on: the behaviour keeps the history of its resolutions; trace: the outcomes of
\* the transport calls of the probes of the resolution in progress, in order;
\* prev: the name, trace and result of the last resolution that ended; pages: the
\* trace has the outcomes of the transport calls of the page requests as well
NoHistory == [on |-> FALSE, trace |-> <<>>, prev |-> NoResolution, pages |-> FALSE]

\* the history after the transport call of a probe had outcome t
Recorded(t) ==
    IF history.on /\ (history.pages \/ phase \in {"detect_org", "detect_user"})
    THEN [history EXCEPT !.trace = Append(@, t)]
    ELSE history

\* the history after the call in progress has ended
Remembered ==
    IF history.on /\ op = "get_repositories" /\ args.owner_type = "auto" /\ phase # "invalid"
    THEN [history EXCEPT !.trace = <<>>,
                         !.prev = [made |-> TRUE, name |-> args.owner_name,
                                   trace |-> history.trace, kind |-> owner_type,
                                   raised |-> IF phase = "list" THEN NoExc ELSE raised]]
    ELSE [history EXCEPT !.trace = <<>>]

\* (mutant) the loop variable of the wrapper outlives the call of the wrapper
StartRequestKeepingAttempt(ep, ps) ==
    /\ pc' = "request"
    /\ endpoint' = ep
    /\ params' = ps
    /\ attempt' = attempt
    /\ invocations' = 0
    /\ sleeps' = <<>>
    /\ response' = NoResponse
    /\ data' = NoData
    /\ exc' = NoExc
    /\ requests' = Append(requests, <<ep, ps>>)

\* (mutant) the retry loop counts over the requests of one operation: only the
\* first request of the operation starts at attempt 0
StartRequestSharingBudget(ep, ps) ==
    /\ pc' = "request"
    /\ endpoint' = ep
    /\ params' = ps
    /\ attempt' = IF requests = <<>> THEN 0 ELSE attempt
    /\ invocations' = 0
    /\ sleeps' = <<>>
    /\ response' = NoResponse
    /\ data' = NoData
    /\ exc' = NoExc
    /\ requests' = Append(requests, <<ep, ps>>)

\* the caller calls self._make_request(endpoint, params): the wrapper starts its loop
StartRequest(ep, ps) ==
    /\ pc' = "request"
    /\ endpoint' = ep
    /\ params' = ps
    /\ attempt' = 0
    /\ invocations' = 0
    /\ sleeps' = <<>>
    /\ response' = NoResponse
    /\ data' = NoData
    /\ exc' = NoExc
    /\ requests' = Append(requests, <<ep, ps>>)

\* one call of the wrapped function by the wrapper: inside the loop a retryable
\* exception is caught (re-raised on the last attempt, slept on otherwise); the call
\* after the loop (line 64) has no handler
Attempt ==
    /\ pc = "request"
    /\ \E t \in TransportOutcomes(provider, endpoint, params) :
         LET r == MakeRequestBody(t, ProviderData(provider, endpoint, params))
         IN  /\ response' = t
             /\ invocations' = invocations + 1
             /\ data' = r.data
             /\ exc' = r.exc
             /\ pc' = IF /\ r.kind = "raise"
                         /\ InRetryLoop(attempt)
                         /\ Retryable(r.exc)
                         /\ ~RetriesExhausted(attempt)
                      THEN "backoff" ELSE "resume"
             /\ history' = Recorded(t)
    /\ UNCHANGED outerVars
    /\ UNCHANGED <<op, phase, provider, endpoint, params, attempt, sleeps, requests,
                   probes, result, raised>>
    /\ UNCHANGED callVars

\* time.sleep(delay), then the next iteration of the retry loop
Backoff ==
    /\ pc = "backoff"
    /\ sleeps' = Append(sleeps, Delay(attempt))
    /\ attempt' = attempt + 1
    /\ exc' = NoExc
    /\ pc' = "request"
    /\ UNCHANGED <<op, phase, provider, history, outerVars, endpoint, params, response, data,
                   invocations, requests, probes, result, raised>>
    /\ UNCHANGED callVars

-----------------------------------------------------------------------------
(* How a facade operation ends *)

\* the operation returns v
Finish(v) ==
    /\ pc' = "done"
    /\ result' = v
    /\ raised' = NoExc

\* the operation raises e
Fail(e) ==
    /\ pc' = "done"
    /\ result' = NoData
    /\ raised' = e

NoProbes == [org |-> "none", user |-> "none"]

\* the query parameters of a request (a field the request does not send is empty)
NoParams == [per_page |-> 0, page |-> 0, state |-> "", q |-> "", sort |-> "", order |-> ""]

NoArgs == [owner_name |-> "", owner_type |-> "", repo_name |-> "", state |-> "",
           query |-> "", sort |-> "", order |-> "", per_page |-> 0, max_results |-> 0]

\* (mutant) the Authorization header is set whether there is a token or not
DefaultHeadersAlwaysAuthorized(token) ==
    {<<"Accept", "application/vnd.github.v3+json">>,
     <<"User-Agent", "Azure-Function-GitHub-Query-Client/1.0">>,
     <<"Authorization", <<"token", token>>>>}

\* session.headers after __init__ (the value 'token {token}' is the pair of its parts)
DefaultHeaders(token) ==
    {<<"Accept", "application/vnd.github.v3+json">>,
     <<"User-Agent", "Azure-Function-GitHub-Query-Client/1.0">>}
    \cup (IF token # "" THEN {<<"Authorization", <<"token", token>>>>} ELSE {})

\* GitHubAPIClient(token) in an environment whose GITHUB_TOKEN is env; None and a
\* variable that is not set are the empty string, which is as falsy as they are
GitHubAPIClient(token, env) ==
    LET t == IF token # "" THEN token ELSE env
    IN  [token |-> t, base_url |-> "https://api.github.com", headers |-> DefaultHeaders(t)]

\* create_github_client()
CreateGithubClient(env) == GitHubAPIClient("", env)

\* no hosting function is running. entry: the function; at: its position; query:
\* its query; round: the search of _search_kinect_repositories in progress; repos:
\* the repositories to display; i: the one being displayed; listed: the entries
\* written to the result, each with the README line it got or none; lookups: how
\* the README lookups ended; caught: the exception the outer handler caught;
\* status, body: the answer of the function
NoHost ==
    [entry |-> "none", at |-> "idle", query |-> "", round |-> 0, repos |-> <<>>, i |-> 0,
     listed |-> <<>>, lookups |-> <<>>, caught |-> NoExc, status |-> 0, body |-> "none"]

\* the locals of a call that has not started
IdleCall ==
    [pc |-> "idle", op |-> "none", phase |-> "none", endpoint |-> <<>>, params |-> NoParams,
     attempt |-> 0, response |-> NoResponse, data |-> NoData, exc |-> NoExc,
     invocations |-> 0, sleeps |-> <<>>, args |-> NoArgs, owner_type |-> "", page |-> 0,
     repositories |-> <<>>, requests |-> <<>>, probes |-> NoProbes, result |-> NoData,
     raised |-> NoExc]

\* there is no other thread. on: two threads run; tid: the one that waits; call:
\* the locals of its call; alone: the locals of the call that ran before the
\* threads started, at its end
NoThread == [on |-> FALSE, tid |-> 0, call |-> IdleCall, alone |-> IdleCall]

\* the client after construction, in front of a provider of the set provs
InitClient(provs) ==
    /\ pc = "idle"
    /\ op = "none"
    /\ phase = "none"
    /\ provider \in provs
    /\ endpoint = <<>>
    /\ params = NoParams
    /\ attempt = 0
    /\ response = NoResponse
    /\ data = NoData
    /\ exc = NoExc
    /\ invocations = 0
    /\ sleeps = <<>>
    /\ args = NoArgs
    /\ owner_type = ""
    /\ page = 0
    /\ repositories = <<>>
    /\ requests = <<>>
    /\ probes = NoProbes
    /\ result = NoData
    /\ raised = NoExc

\* one thread, no hosting function, a client made by create_github_client() in an
\* environment without GITHUB_TOKEN
InitOuter ==
    /\ environ = ""
    /\ client = CreateGithubClient(environ)
    /\ host = NoHost
    /\ waiting = NoThread

InitWith(provs) == InitClient(provs) /\ history = NoHistory /\ InitOuter

\* the caller has its answer; the client is ready for the next call. Nothing of
\* the call is kept but the wrapper's loop variable, which no call reads before
\* the wrapper has set it.
ReturnToCaller ==
    /\ pc = "done"
    /\ pc' = "idle"
    /\ op' = "none"
    /\ phase' = "none"
    /\ endpoint' = <<>>
    /\ params' = NoParams
    /\ response' = NoResponse
    /\ data' = NoData
    /\ exc' = NoExc
    /\ invocations' = 0
    /\ sleeps' = <<>>
    /\ args' = NoArgs
    /\ owner_type' = ""
    /\ page' = 0
    /\ repositories' = <<>>
    /\ requests' = <<>>
    /\ probes' = NoProbes
    /\ result' = NoData
    /\ raised' = NoExc
    /\ history' = Remembered
    /\ UNCHANGED <<provider, attempt>>

\* the caller is a script that makes its next call
NextCall == ReturnToCaller /\ UNCHANGED outerVars

-----------------------------------------------------------------------------
(* One logical request: a caller calls _make_request on an endpoint *)

\* the endpoints the client calls _make_request on without parameters
DetailEndpoints == {<<"orgs", "octo">>, <<"users", "octo">>}

CallMakeRequest ==
    /\ pc = "idle"
    /\ op' = "_make_request"
    /\ phase' = "request"
    /\ \E ep \in DetailEndpoints : StartRequest(ep, NoParams)
    /\ UNCHANGED <<provider, history, outerVars, probes, result, raised>>
    /\ UNCHANGED callVars

\* _make_request returned or raised: so does the call
MakeRequestDone ==
    /\ pc = "resume"
    /\ op = "_make_request"
    /\ IF exc = NoExc THEN Finish(data) ELSE Fail(exc)
    /\ UNCHANGED <<op, phase, provider, history, outerVars, probes>>
    /\ UNCHANGED callVars
    /\ UNCHANGED reqVars

\* providers that differ in what the owner name is
OwnerProviders ==
    {ProviderOf(t, FALSE, o, u, {}, FALSE) : t \in 0..MaxOwnerItems, o \in BOOLEAN, u \in BOOLEAN}

InitRetry == InitWith(OwnerProviders)

NextRetry == CallMakeRequest \/ Attempt \/ Backoff \/ MakeRequestDone \/ NextCall

SpecRetry == InitRetry /\ [][NextRetry]_vars

-----------------------------------------------------------------------------
(* The arguments callers pass *)

OwnerNames == {"", "  ", "octo", " octo "}
RepoNames == {"", " ", "hello"}
OwnerTypes == {"auto", "org", "user", "team"}
States == {"open", "merged"}
PerPages == {1, 2, 100, 101}

\* str.strip() on the names above
Strip(s) == IF s \in {" ", "  "} THEN "" ELSE IF s = " octo " THEN "octo" ELSE s

\* a provider whose list takes many pages: it is called with plain arguments only
Large(prov) == prov.endless \/ prov.total > MaxItems
OwnerNamesFor(prov) == IF Large(prov) THEN {"octo"} ELSE OwnerNames
RepoNamesFor(prov) == IF Large(prov) THEN {"hello"} ELSE RepoNames
StatesFor(prov) == IF Large(prov) THEN {"open"} ELSE States

\* (mutant) not s: a name of spaces passes
BlankEmptyOnly(s) == s = ""

\* not s or not s.strip()
Blank(s) == s = "" \/ Strip(s) = ""

\* an endless provider is only asked for pages of at most this size
MaxEndlessPerPage == 2

\* the page sizes a caller asks the provider in front of the client for
PerPagesFor(prov) == {pp \in PerPages : prov.endless => pp <= MaxEndlessPerPage}

-----------------------------------------------------------------------------
(* The page loop of the listing operations *)

\* (mutant) an item the accumulator already has is not added again
RECURSIVE ExtendedWithoutRepeats(_, _)
ExtendedWithoutRepeats(acc, items) ==
    IF items = <<>> THEN acc
    ELSE ExtendedWithoutRepeats(IF \E k \in DOMAIN acc : acc[k] = items[1] THEN acc
                                ELSE Append(acc, items[1]),
                                Tail(items))

\* repositories.extend(data)
Extended(acc, items) == acc \o items

\* (mutant) if len(data) <= params['per_page']: a full page ends the loop
LastPageOrFull(d, ps) == Len(d.items) <= ps.per_page

\* if len(data) < params['per_page']: the last page
LastPage(d, ps) == Len(d.items) < ps.per_page

\* (mutant) the safety check compares with the wrong ceiling
PastPageCeilingLate(p) == p > MaxPages + 1

\* if page > 100: the safety check
PastPageCeiling(p) == p > MaxPages

\* (mutant) 'per_page': per_page
PageParamsUnclamped(pp, p, st) ==
    [NoParams EXCEPT !.per_page = pp, !.page = p, !.state = st]

\* 'state': state, 'per_page': min(per_page, 100), 'page': page
PageParams(pp, p, st) ==
    [NoParams EXCEPT !.per_page = Min(pp, GitHubMaxPerPage), !.page = p, !.state = st]

\* (mutant) the page is kept as it came
KeepPullRequests(prov, items) == items

\* issues = [issue for issue in data if 'pull_request' not in issue]
FilterIssues(prov, items) == SelectSeq(items, LAMBDA i : i \notin prov.prs)

\* (mutant) an empty page is an error
PageLoopEmptyFails(kept) ==
    IF exc # NoExc
    THEN /\ Fail(exc)
         /\ UNCHANGED <<page, repositories>>
         /\ UNCHANGED reqVars
    ELSE IF ~Truthy(data)
    THEN /\ Fail(Exc("GitHubAPIError", "Resource not found", {"not found"}))
         /\ UNCHANGED <<page, repositories>>
         /\ UNCHANGED reqVars
    ELSE /\ repositories' = repositories \o kept
         /\ IF LastPage(data, params)
            THEN /\ Finish(ListData(repositories'))
                 /\ UNCHANGED page
                 /\ UNCHANGED reqVars
            ELSE /\ page' = page + 1
                 /\ IF PastPageCeiling(page')
                    THEN /\ Finish(ListData(repositories'))
                         /\ UNCHANGED reqVars
                    ELSE /\ StartRequest(endpoint, PageParams(args.per_page, page', args.state))
                         /\ UNCHANGED <<result, raised>>

\* (mutant) a failure after the first page ends the loop with what it has
PageLoopPartialOnFailure(kept) ==
    IF exc # NoExc
    THEN /\ IF repositories # <<>> THEN Finish(ListData(repositories)) ELSE Fail(exc)
         /\ UNCHANGED <<page, repositories>>
         /\ UNCHANGED reqVars
    ELSE IF ~Truthy(data)
    THEN /\ Finish(ListData(repositories))
         /\ UNCHANGED <<page, repositories>>
         /\ UNCHANGED reqVars
    ELSE /\ repositories' = Extended(repositories, kept)
         /\ IF LastPage(data, params)
            THEN /\ Finish(ListData(repositories'))
                 /\ UNCHANGED page
                 /\ UNCHANGED reqVars
            ELSE /\ page' = page + 1
                 /\ IF PastPageCeiling(page')
                    THEN /\ Finish(ListData(repositories'))
                         /\ UNCHANGED reqVars
                    ELSE /\ StartRequest(endpoint, PageParams(args.per_page, page', args.state))
                         /\ UNCHANGED <<result, raised>>

\* one pass of the body of `while True` after _make_request has answered; kept is
\* what the pass appends to the accumulator
PageLoop(kept) ==
    IF exc # NoExc
    THEN /\ Fail(exc)
         /\ UNCHANGED <<page, repositories>>
         /\ UNCHANGED reqVars
    ELSE IF ~Truthy(data)
    THEN /\ Finish(ListData(repositories))
         /\ UNCHANGED <<page, repositories>>
         /\ UNCHANGED reqVars
    ELSE /\ repositories' = Extended(repositories, kept)
         /\ IF LastPage(data, params)
            THEN /\ Finish(ListData(repositories'))
                 /\ UNCHANGED page
                 /\ UNCHANGED reqVars
            ELSE /\ page' = page + 1
                 /\ IF PastPageCeiling(page')
                    THEN /\ Finish(ListData(repositories'))
                         /\ UNCHANGED reqVars
                    ELSE /\ StartRequest(endpoint, PageParams(args.per_page, page', args.state))
                         /\ UNCHANGED <<result, raised>>

\* repositories = [], page = 1 and the first pass of the loop up to its request
BeginPageLoop(ep, pp, st) ==
    /\ repositories' = <<>>
    /\ page' = 1
    /\ StartRequest(ep, PageParams(pp, 1, st))

-----------------------------------------------------------------------------
(* get_repositories and _detect_owner_type *)

\* (mutant) the two endpoints are taken for each other
ReposEndpointSwapped(name, ot) ==
    IF ot = "org" THEN <<"users", name, "repos">> ELSE <<"orgs", name, "repos">>

\* endpoint = f"orgs/{owner_name}/repos" if owner_type == "org" else f"users/{owner_name}/repos"
ReposEndpoint(name, ot) == IF ot = "org" THEN <<"orgs", name, "repos">> ELSE <<"users", name, "repos">>

\* get_repositories from the owner_type check on (line 193), ot being owner_type
ListRepositoriesAs(name, ot, pp) ==
    IF ot \notin {"org", "user"}
    THEN /\ Fail(Exc("ValueError", "Owner type must be 'org', 'user', or 'auto'", {}))
         /\ UNCHANGED <<page, repositories>>
         /\ UNCHANGED reqVars
         /\ phase' = "invalid"
    ELSE /\ BeginPageLoop(ReposEndpoint(name, ot), pp, "")
         /\ phase' = "list"
         /\ UNCHANGED <<result, raised>>

\* get_repositories(name, ot, pp) up to its first request
GetRepositories(name, ot, pp) ==
    /\ op' = "get_repositories"
    /\   IF Blank(name)
         THEN /\ Fail(Exc("ValueError", "Owner name cannot be empty", {}))
              /\ args' = [NoArgs EXCEPT !.owner_name = name, !.owner_type = ot, !.per_page = pp]
              /\ phase' = "invalid"
              /\ UNCHANGED <<owner_type, page, repositories>>
              /\ UNCHANGED reqVars
         ELSE /\ args' = [NoArgs EXCEPT !.owner_name = Strip(name), !.owner_type = ot,
                                        !.per_page = pp]
              /\ IF ot = "auto"
                 THEN \* owner_type = self._detect_owner_type(owner_name): the org probe
                      /\ StartRequest(<<"orgs", Strip(name)>>, NoParams)
                      /\ phase' = "detect_org"
                      /\ UNCHANGED <<owner_type, page, repositories, result, raised>>
                 ELSE /\ owner_type' = ot
                      /\ ListRepositoriesAs(Strip(name), ot, pp)
    /\ UNCHANGED <<provider, history, probes>>

CallGetRepositories ==
    /\ pc = "idle"
    /\ \E name \in OwnerNamesFor(provider), ot \in OwnerTypes, pp \in PerPagesFor(provider) :
         GetRepositories(name, ot, pp)
    /\ UNCHANGED outerVars

\* (mutant) the org probe has no handler: its failure ends the resolution
OrgProbeNeverCaught(e) == FALSE

\* except GitHubAPIError: around the org probe
OrgProbeFailed(e) == IsGitHubAPIError(e)

\* except GitHubAPIError: around the user probe
UserProbeFailed(e) == IsGitHubAPIError(e)

\* _detect_owner_type after a probe has answered, and on its return the rest of
\* get_repositories up to the first listing request
DetectOwnerType ==
    /\ pc = "resume"
    /\ op = "get_repositories"
    /\ phase \in {"detect_org", "detect_user"}
    /\ IF phase = "detect_org"
       THEN /\ probes' = [probes EXCEPT !.org = FailureKind(response)]
            /\ IF exc = NoExc
               THEN /\ owner_type' = "org"
                    /\ ListRepositoriesAs(args.owner_name, "org", args.per_page)
               ELSE IF OrgProbeFailed(exc)
               THEN /\ StartRequest(<<"users", args.owner_name>>, NoParams)
                    /\ phase' = "detect_user"
                    /\ UNCHANGED <<owner_type, page, repositories, result, raised>>
               ELSE /\ Fail(exc)
                    /\ UNCHANGED <<phase, owner_type, page, repositories>>
                    /\ UNCHANGED reqVars
       ELSE /\ probes' = [probes EXCEPT !.user = FailureKind(response)]
            /\ IF exc = NoExc
               THEN /\ owner_type' = "user"
                    /\ ListRepositoriesAs(args.owner_name, "user", args.per_page)
               ELSE IF UserProbeFailed(exc)
               THEN /\ Fail(Exc("GitHubAPIError", "Owner not found as organization or user",
                                {"not found"}))
                    /\ UNCHANGED <<phase, owner_type, page, repositories>>
                    /\ UNCHANGED reqVars
               ELSE /\ Fail(exc)
                    /\ UNCHANGED <<phase, owner_type, page, repositories>>
                    /\ UNCHANGED reqVars
    /\ UNCHANGED <<op, provider, history, outerVars, args>>

\* the page loop of get_repositories
GetRepositoriesPage ==
    /\ pc = "resume"
    /\ op = "get_repositories"
    /\ phase = "list"
    /\ PageLoop(data.items)
    /\ UNCHANGED <<op, phase, provider, history, outerVars, args, owner_type, probes>>

NextOwner ==
    CallGetRepositories \/ Attempt \/ Backoff \/ DetectOwnerType \/ GetRepositoriesPage \/ NextCall

InitOwner == InitWith(OwnerProviders)

SpecOwner == InitOwner /\ [][NextOwner]_vars

\* the behaviours in which an owner is resolved again and again, with the history
\* of the resolutions kept; the transport in front of the provider times out or
\* answers that the rate limit is exceeded
ProbeFaults == {Raises("Timeout"), Response(403, {"rate limit", "rate limit exceeded"}, TRUE)}

TwiceProviders ==
    {[ProviderOf(0, FALSE, o, u, {}, FALSE) EXCEPT !.faults = ProbeFaults] :
        o \in BOOLEAN, u \in BOOLEAN}

InitTwice ==
    InitClient(TwiceProviders) /\ history = [NoHistory EXCEPT !.on = TRUE] /\ InitOuter

SpecTwice == InitTwice /\ [][NextOwner]_vars

\* one call of get_repositories whose every transport call is kept in the history,
\* on a list of one repository behind a transport that may answer any request
\* with a rate limit
BudgetFaults == {Response(403, {"rate limit", "rate limit exceeded"}, TRUE)}

BudgetProviders ==
    {[ProviderOf(t, FALSE, o, TRUE, {}, FALSE) EXCEPT !.faults = BudgetFaults] :
        t \in 0..MaxOwnerItems, o \in BOOLEAN}

InitBudget ==
    /\ InitClient(BudgetProviders)
    /\ history = [NoHistory EXCEPT !.on = TRUE, !.pages = TRUE]
    /\ InitOuter

NextBudget ==
    CallGetRepositories \/ Attempt \/ Backoff \/ DetectOwnerType \/ GetRepositoriesPage

SpecBudget == InitBudget /\ [][NextBudget]_vars

-----------------------------------------------------------------------------
(* get_repository_readme, get_repository_issues, get_repository_pull_requests,
   get_repository_contributors *)

\* the checks the four operations start with; needs_state: the operation takes a state
RepoArgsError(owner, repo, st, needs_state) ==
    IF owner = "" \/ repo = ""
    THEN Exc("ValueError", "Owner and repository name cannot be empty", {})
    ELSE IF needs_state /\ st \notin {"open", "closed", "all"}
    THEN Exc("ValueError", "State must be 'open', 'closed', or 'all'", {})
    ELSE NoExc

\* a call of one of the three operations up to its first request
CallRepoListing(name, leaf, needs_state) ==
    /\ pc = "idle"
    /\ op' = name
    /\ \E owner \in OwnerNamesFor(provider), repo \in RepoNamesFor(provider),
          st \in (IF needs_state THEN StatesFor(provider) ELSE {""}),
          pp \in PerPagesFor(provider) :
         LET e == RepoArgsError(owner, repo, st, needs_state)
         IN  IF e # NoExc
             THEN /\ Fail(e)
                  /\ args' = [NoArgs EXCEPT !.owner_name = owner, !.repo_name = repo,
                                            !.state = st, !.per_page = pp]
                  /\ phase' = "invalid"
                  /\ UNCHANGED <<page, repositories>>
                  /\ UNCHANGED reqVars
             ELSE /\ args' = [NoArgs EXCEPT !.owner_name = Strip(owner),
                                            !.repo_name = Strip(repo),
                                            !.state = st, !.per_page = pp]
                  /\ BeginPageLoop(<<"repos", Strip(owner), Strip(repo), leaf>>, pp, st)
                  /\ phase' = "list"
                  /\ UNCHANGED <<result, raised>>
    /\ UNCHANGED <<provider, history, outerVars, owner_type, probes>>

\* (mutant) the handler re-raises every GitHubAPIError
ReadmeNeverMissing(e) == FALSE

\* if "not found" in str(e).lower()
ReadmeMissing(e) == "not found" \in e.words

\* get_repository_readme(owner, repo) up to its request
GetRepositoryReadme(owner, repo) ==
    /\ op' = "get_repository_readme"
    /\   LET e == RepoArgsError(owner, repo, "", FALSE)
         IN  IF e # NoExc
             THEN /\ Fail(e)
                  /\ args' = [NoArgs EXCEPT !.owner_name = owner, !.repo_name = repo]
                  /\ phase' = "invalid"
                  /\ UNCHANGED reqVars
             ELSE /\ args' = [NoArgs EXCEPT !.owner_name = Strip(owner),
                                            !.repo_name = Strip(repo)]
                  /\ StartRequest(<<"repos", Strip(owner), Strip(repo), "readme">>, NoParams)
                  /\ phase' = "readme"
                  /\ UNCHANGED <<result, raised>>
    /\ UNCHANGED <<provider, history, owner_type, page, repositories, probes>>

CallGetRepositoryReadme ==
    /\ pc = "idle"
    /\ \E owner \in OwnerNamesFor(provider), repo \in RepoNamesFor(provider) :
         GetRepositoryReadme(owner, repo)
    /\ UNCHANGED outerVars

\* get_repository_readme after _make_request has answered
GetRepositoryReadmeDone ==
    /\ pc = "resume"
    /\ op = "get_repository_readme"
    /\ IF exc # NoExc
       THEN IF IsGitHubAPIError(exc) /\ ReadmeMissing(exc) THEN Finish(NoData) ELSE Fail(exc)
       ELSE IF "content" \in data.keys THEN Finish(TextData(Utf8Decode(B64Decode(data.items))))
       ELSE Finish(NoData)
    /\ UNCHANGED <<op, phase, provider, history, outerVars, probes>>
    /\ UNCHANGED callVars
    /\ UNCHANGED reqVars

\* the longest README text of the providers that differ in their README
MaxTextLen == 3

\* the characters of those texts: a line feed, "A", e with an acute accent (2 bytes
\* in UTF-8) and the euro sign (3 bytes)
ReadmeChars == {10, 65, 233, 8364}

ReadmeTexts == UNION {[1..n -> ReadmeChars] : n \in 0..MaxTextLen}

ReadmeProviders ==
    {[ProviderOf(0, FALSE, TRUE, TRUE, {}, FALSE) EXCEPT !.readme = t] : t \in ReadmeTexts}
    \cup {[ProviderOf(0, FALSE, TRUE, TRUE, {}, FALSE) EXCEPT !.content = FALSE]}

NextReadme ==
    CallGetRepositoryReadme \/ GetRepositoryReadmeDone \/ Attempt \/ Backoff \/ NextCall

InitReadme == InitWith(ReadmeProviders)

SpecReadme == InitReadme /\ [][NextReadme]_vars

CallGetRepositoryIssues == CallRepoListing("get_repository_issues", "issues", TRUE)

GetRepositoryIssuesPage ==
    /\ pc = "resume"
    /\ op = "get_repository_issues"
    /\ PageLoop(FilterIssues(provider, data.items))
    /\ UNCHANGED <<op, phase, provider, history, outerVars, args, owner_type, probes>>

CallGetRepositoryPullRequests ==
    CallRepoListing("get_repository_pull_requests", "pulls", TRUE)

GetRepositoryPullRequestsPage ==
    /\ pc = "resume"
    /\ op = "get_repository_pull_requests"
    /\ PageLoop(data.items)
    /\ UNCHANGED <<op, phase, provider, history, outerVars, args, owner_type, probes>>

CallGetRepositoryContributors ==
    CallRepoListing("get_repository_contributors", "contributors", FALSE)

GetRepositoryContributorsPage ==
    /\ pc = "resume"
    /\ op = "get_repository_contributors"
    /\ PageLoop(data.items)
    /\ UNCHANGED <<op, phase, provider, history, outerVars, args, owner_type, probes>>

\* the items 2 and 4 of the provider's list are pull requests
PullRequestItems == {2, 4}

\* the long lists: one item more than the page ceiling serves at page size 1
LongTotals == {MaxPages + 1}

\* providers that differ in the list they serve
ListProviders ==
    {ProviderOf(t, FALSE, TRUE, TRUE, PullRequestItems, FALSE) : t \in (0..MaxItems) \cup LongTotals}

\* the provider that never serves a short page
EndlessProviders == {ProviderOf(0, TRUE, TRUE, TRUE, PullRequestItems, FALSE)}

NextList ==
    \/ CallGetRepositories \/ DetectOwnerType \/ GetRepositoriesPage
    \/ CallGetRepositoryIssues \/ GetRepositoryIssuesPage
    \/ CallGetRepositoryPullRequests \/ GetRepositoryPullRequestsPage
    \/ CallGetRepositoryContributors \/ GetRepositoryContributorsPage
    \/ CallGetRepositoryReadme \/ GetRepositoryReadmeDone
    \/ Attempt \/ Backoff \/ NextCall

InitList == InitWith(ListProviders)

SpecList == InitList /\ [][NextList]_vars

\* a list of MaxItems items that is neither sorted nor free of repetitions
ShuffledProviders ==
    {[ProviderOf(MaxItems, FALSE, TRUE, TRUE, PullRequestItems, FALSE) EXCEPT !.shuffled = TRUE]}

InitShuffled == InitWith(ShuffledProviders)

SpecShuffled == InitShuffled /\ [][NextList]_vars

InitEndless == InitWith(EndlessProviders)

SpecEndless == InitEndless /\ [][NextList]_vars

-----------------------------------------------------------------------------
(* search_repositories_paginated *)

Queries == {"kinect", "", "  "}
Sorts == {"stars", "forks", "help-wanted-issues", "updated", "bogus"}
Orders == {"asc", "desc", "sideways"}
MaxResultsArgs == {-1, 0, 1, 2, 5, 99, 100, 101, 250, 999, 1000, 1001, 1100}

\* the reliable provider is searched with every max_results up to past the
\* search window; the others with the values above
MaxResultsFor(prov) ==
    IF prov.reliable THEN (-1)..(SearchMaxPages * GitHubMaxPerPage + 100) ELSE MaxResultsArgs

\* a search that takes many items is called with plain arguments only
LargeSearch(prov, mr) == Large(prov) \/ mr > MaxItems
QueriesFor(prov, mr) == IF LargeSearch(prov, mr) THEN {"kinect"} ELSE Queries
SortsFor(prov, mr) == IF LargeSearch(prov, mr) THEN {"updated"} ELSE Sorts
OrdersFor(prov, mr) == IF LargeSearch(prov, mr) THEN {"desc"} ELSE Orders

\* (mutant) current_per_page = per_page: the last page is asked in full
FullPerPage(mr, have) == Min(GitHubMaxPerPage, mr)

\* per_page = min(100, max_results); remaining = max_results - len(repositories);
\* current_per_page = min(per_page, remaining)
CurrentPerPage(mr, have) == Min(Min(GitHubMaxPerPage, mr), mr - have)

\* the params of the search request of page p when `have` items are accumulated
SearchParams(a, p, have) ==
    [NoParams EXCEPT !.q = a.query, !.sort = a.sort, !.order = a.order,
                     !.per_page = CurrentPerPage(a.max_results, have), !.page = p]

\* (mutant) while len(repositories) <= max_results
SearchWantedInclusive(mr, have) == have <= mr

\* while len(repositories) < max_results
SearchWanted(mr, have) == have < mr

\* (mutant) the window test lets an 11th page through
PastSearchWindowLate(p) == p > SearchMaxPages + 1

\* if page > 10: the search API only returns the first 1000 results
PastSearchWindow(p) == p > SearchMaxPages

\* (mutant) the handler re-raises every GitHubAPIError
NeverSoftStop(e) == FALSE

\* if "rate limit" in str(e).lower(): break
SoftStop(e) == "rate limit" \in e.words

CallSearchRepositoriesPaginated ==
    /\ pc = "idle"
    /\ op' = "search_repositories_paginated"
    /\ phase' = "list"
    /\ \E mr \in MaxResultsFor(provider) :
       \E q \in QueriesFor(provider, mr), so \in SortsFor(provider, mr),
          o \in OrdersFor(provider, mr) :
         LET a == [NoArgs EXCEPT !.query = q, !.sort = so, !.order = o, !.max_results = mr]
         IN  /\ args' = a
             /\ repositories' = <<>>
             /\ page' = 1
             /\ IF SearchWanted(mr, 0)
                THEN /\ StartRequest(<<"search", "repositories">>, SearchParams(a, 1, 0))
                     /\ UNCHANGED <<result, raised>>
                ELSE /\ Finish(ListData(<<>>))
                     /\ UNCHANGED reqVars
    /\ UNCHANGED <<provider, history, outerVars, owner_type, probes>>

\* one pass of the body of the while loop after _make_request has answered, and the
\* test of the loop before the next pass
SearchRepositoriesPage ==
    /\ pc = "resume"
    /\ op = "search_repositories_paginated"
    /\ IF exc # NoExc
       THEN /\ IF IsGitHubAPIError(exc) /\ SoftStop(exc)
               THEN Finish(ListData(repositories))
               ELSE Fail(exc)
            /\ UNCHANGED <<page, repositories>>
            /\ UNCHANGED reqVars
       ELSE IF "items" \notin data.keys \/ data.items = <<>>
       THEN /\ Finish(ListData(repositories))
            /\ UNCHANGED <<page, repositories>>
            /\ UNCHANGED reqVars
       ELSE /\ repositories' = repositories \o data.items
            /\ IF Len(data.items) < params.per_page
               THEN /\ Finish(ListData(repositories'))
                    /\ UNCHANGED page
                    /\ UNCHANGED reqVars
               ELSE /\ page' = page + 1
                    /\ IF PastSearchWindow(page') \/ ~SearchWanted(args.max_results, Len(repositories'))
                       THEN /\ Finish(ListData(repositories'))
                            /\ UNCHANGED reqVars
                       ELSE /\ StartRequest(endpoint, SearchParams(args, page', Len(repositories')))
                            /\ UNCHANGED <<result, raised>>
    /\ UNCHANGED <<op, phase, provider, history, outerVars, args, owner_type, probes>>

-----------------------------------------------------------------------------
(* search_repositories *)

\* ['stars', 'forks', 'help-wanted-issues', 'updated']
SortFields == {"stars", "forks", "help-wanted-issues", "updated"}

\* ['asc', 'desc']
SortOrders == {"asc", "desc"}

\* (mutant) the order argument is not validated
SearchArgsErrorNoOrder(q, so, o) ==
    IF Blank(q) THEN Exc("ValueError", "Search query cannot be empty", {})
    ELSE IF so \notin SortFields
    THEN Exc("ValueError", "Sort must be one of: stars, forks, help-wanted-issues, updated", {})
    ELSE NoExc

\* the three checks search_repositories opens with: the ValueError raised, or NoExc
SearchArgsError(q, so, o) ==
    IF Blank(q) THEN Exc("ValueError", "Search query cannot be empty", {})
    ELSE IF so \notin SortFields
    THEN Exc("ValueError", "Sort must be one of: stars, forks, help-wanted-issues, updated", {})
    ELSE IF o \notin SortOrders
    THEN Exc("ValueError", "Order must be 'asc' or 'desc'", {})
    ELSE NoExc

\* search_repositories(q, so, o, pp) up to its request
SearchRepositories(q, so, o, pp) ==
    /\ op' = "search_repositories"
    /\   IF SearchArgsError(q, so, o) # NoExc
         THEN /\ Fail(SearchArgsError(q, so, o))
              /\ args' = [NoArgs EXCEPT !.query = q, !.sort = so, !.order = o, !.per_page = pp]
              /\ phase' = "invalid"
              /\ UNCHANGED reqVars
         ELSE /\ args' = [NoArgs EXCEPT !.query = Strip(q), !.sort = so, !.order = o,
                                        !.per_page = pp]
              /\ phase' = "search"
              /\ StartRequest(<<"search", "repositories">>,
                              [NoParams EXCEPT !.q = Strip(q), !.sort = so, !.order = o,
                                               !.per_page = Min(pp, GitHubMaxPerPage)])
              /\ UNCHANGED <<result, raised>>
    /\ UNCHANGED <<provider, history, owner_type, page, repositories, probes>>

CallSearchRepositories ==
    /\ pc = "idle"
    /\ \E q \in Queries, so \in Sorts, o \in Orders, pp \in PerPagesFor(provider) :
         SearchRepositories(q, so, o, pp)
    /\ UNCHANGED outerVars

\* search_repositories after _make_request has answered
SearchRepositoriesDone ==
    /\ pc = "resume"
    /\ op = "search_repositories"
    /\ IF exc # NoExc THEN Fail(exc)
       ELSE IF {"total_count", "items"} \subseteq data.keys THEN Finish(data)
       ELSE Finish(DictData({"total_count", "items"}, <<>>))
    /\ UNCHANGED <<op, phase, provider, history, outerVars, probes>>
    /\ UNCHANGED callVars
    /\ UNCHANGED reqVars

\* the lists a search is run against: short ones, two long ones, an endless one,
\* and an endless one behind a transport that never fails
SearchTotals == (0..MaxItems) \cup {150, 300}

SearchProviders ==
    {ProviderOf(t, FALSE, TRUE, TRUE, {}, FALSE) : t \in SearchTotals}
    \cup {ProviderOf(0, TRUE, TRUE, TRUE, {}, FALSE), ProviderOf(0, TRUE, TRUE, TRUE, {}, TRUE)}

NextSearch ==
    \/ CallSearchRepositoriesPaginated
    \/ SearchRepositoriesPage
    \/ CallSearchRepositories
    \/ SearchRepositoriesDone
    \/ Attempt
    \/ Backoff
    \/ NextCall

InitSearch == InitWith(SearchProviders)

SpecSearch == InitSearch /\ [][NextSearch]_vars

-----------------------------------------------------------------------------
(* The hosting functions of function_app.py, which display repositories *)

\* the word "kinect", and a README that has it with a capital
KinectWord == <<107, 105, 110, 101, 99, 116>>
KinectReadme == <<75, 105, 110, 101, 99, 116>>

\* str.lower() of a text of ASCII letters
Lower(text) == [i \in DOMAIN text |-> IF text[i] \in 65..90 THEN text[i] + 32 ELSE text[i]]

\* word in text
Contains(text, word) ==
    \E i \in 1..(Len(text) - Len(word) + 1) : SubSeq(text, i, i + Len(word) - 1) = word

\* seq[:n]
Take(seq, n) == SubSeq(seq, 1, Min(n, Len(seq)))

\* the queries the hosting functions are asked: an owner name, a name of spaces,
\* and a search query
HostQueries == {"octo", "  ", "kinect in:name"}

\* any(operator in query.lower() for operator in ['in:', 'language:', ...])
Qualified(q) == q = "kinect in:name"

\* query.split()[0].lower() of a qualified query
SearchTerm(q) == KinectWord

\* search_queries of _search_kinect_repositories
KinectQueries ==
    <<"kinect in:name,description,readme", "kinect SDK", "microsoft kinect", "kinect sensor",
      "kinect v2", "kinect azure", "kinect depth camera", "kinect body tracking">>

\* the provider numbers its repositories; repo['name'] and its stargazers_count
RepoName(i) == ToString(i)
Stars(i) == i

\* all_repos after the items of one more search: those not seen yet are appended
RECURSIVE Unseen(_, _)
Unseen(all, items) ==
    IF items = <<>> THEN all
    ELSE Unseen(IF \E k \in DOMAIN all : all[k] = items[1] THEN all ELSE Append(all, items[1]),
                Tail(items))

\* all_repos.sort(key=stargazers_count, reverse=True): a stable sort
RECURSIVE SortByStars(_)
SortByStars(all) ==
    IF all = <<>> THEN <<>>
    ELSE LET rest == SortByStars(Tail(all))
             before == SelectSeq(rest, LAMBDA r : Stars(r) > Stars(all[1]))
             after == SelectSeq(rest, LAMBDA r : Stars(r) <= Stars(all[1]))
         IN  before \o <<all[1]>> \o after

\* the function returns what it has written: the HTTP functions with status 200,
\* the tool with the text as a JSON string
Answered(h) ==
    [h EXCEPT !.at = "returned", !.body = "result",
              !.status = IF h.entry = "mcp_query_github" THEN 0 ELSE 200]

\* the function refuses its input: the HTTP function with status 400, the tool
\* with an error object
Refused(entry) ==
    [NoHost EXCEPT !.entry = entry, !.at = "returned", !.body = "error",
                   !.status = IF entry = "mcp_query_github" THEN 0 ELSE 400]

\* the display loop over h.repos starts, if there is anything to display
Display(h) == IF h.repos = <<>> THEN Answered(h) ELSE [h EXCEPT !.at = "display", !.i = 1]

\* _query_repositories(q) up to the first request of its first call on the client
QueryRepositories(entry, q) ==
    /\ client' = CreateGithubClient(environ)
    /\ host' = [NoHost EXCEPT !.entry = entry, !.at = "listing", !.query = q]
    /\ IF Qualified(q) THEN SearchRepositories(q, "stars", "desc", 15)
       ELSE GetRepositories(q, "auto", 100)
    /\ UNCHANGED <<environ, waiting>>

\* the function returns before it has a client
ReturnRefused(entry) ==
    /\ host' = Refused(entry)
    /\ UNCHANGED <<pc, op, phase, provider, history, probes, result, raised, environ, client,
                   waiting>>
    /\ UNCHANGED callVars
    /\ UNCHANGED reqVars

\* the JSON bodies of the requests to query-github: no JSON, or an object whose
\* fields may be missing
HttpBodies ==
    {[json |-> FALSE, githubqueryname |-> "", projectid |-> "", githubquery |-> ""]}
    \cup [json : {TRUE}, githubqueryname : {"", "repos"}, projectid : {"", "p1"},
          githubquery : HostQueries \cup {""}]

HttpQueryGithub ==
    /\ pc = "idle"
    /\ host.at = "idle"
    /\ \E body \in HttpBodies :
         IF ~body.json \/ body.githubqueryname = "" \/ body.projectid = "" \/ body.githubquery = ""
         THEN ReturnRefused("http_query_github")
         ELSE QueryRepositories("http_query_github", body.githubquery)

\* the contexts of the tool: no JSON, or arguments with or without a query
McpContexts == {[json |-> FALSE, githubquery |-> ""]} \cup [json : {TRUE}, githubquery : HostQueries \cup {""}]

McpQueryGithub ==
    /\ pc = "idle"
    /\ host.at = "idle"
    /\ \E context \in McpContexts :
         IF ~context.json \/ context.githubquery = ""
         THEN ReturnRefused("mcp_query_github")
         ELSE QueryRepositories("mcp_query_github", context.githubquery)

\* search_kinect_repositories up to the first request of the first search
SearchKinectRepositories ==
    /\ pc = "idle"
    /\ host.at = "idle"
    /\ client' = CreateGithubClient(environ)
    /\ host' = [NoHost EXCEPT !.entry = "search_kinect_repositories", !.at = "listing", !.round = 1]
    /\ SearchRepositories(KinectQueries[1], "stars", "desc", 10)
    /\ UNCHANGED <<environ, waiting>>

\* the next search of _search_kinect_repositories
KinectSearch ==
    /\ pc = "idle"
    /\ host.at = "search"
    /\ host' = [host EXCEPT !.at = "listing"]
    /\ SearchRepositories(KinectQueries[host.round], "stars", "desc", 10)
    /\ UNCHANGED <<environ, client, waiting>>

\* the call that lists or searches has ended: the outer handler writes its
\* failure to the result; otherwise the repositories to display are chosen
HostListed ==
    /\ host.at = "listing"
    /\ ReturnToCaller
    /\ host' =
         IF raised # NoExc THEN Answered([host EXCEPT !.caught = raised])
         ELSE IF host.entry = "search_kinect_repositories"
         THEN LET all == IF "items" \in result.keys THEN Unseen(host.repos, result.items)
                         ELSE host.repos
              IN  IF Len(all) >= 20 \/ host.round = Len(KinectQueries)
                  THEN Display([host EXCEPT !.repos = Take(SortByStars(all), 15)])
                  ELSE [host EXCEPT !.repos = all, !.round = @ + 1, !.at = "search"]
         ELSE IF Qualified(host.query)
         THEN IF "items" \in result.keys /\ result.items # <<>>
              THEN Display([host EXCEPT !.repos = Take(result.items, 10)])
              ELSE Answered(host)
         ELSE Display([host EXCEPT !.repos = Take(result.items, 3)])
    /\ UNCHANGED <<environ, client, waiting>>

\* the README lookup of the repository being displayed
HostLookup ==
    /\ pc = "idle"
    /\ host.at = "display"
    /\ host' = [host EXCEPT !.at = "lookup"]
    /\ GetRepositoryReadme("octo", RepoName(host.repos[host.i]))
    /\ UNCHANGED <<environ, client, waiting>>

\* the README lookups of the search branch and of the kinect search are inside a
\* try of their own; the one of the owner branch (line 251) is not
LookupGuarded(h) == h.entry = "search_kinect_repositories" \/ Qualified(h.query)

\* the README line is written: the owner branch writes any README that is not
\* empty, the others one that has the search term
Enriched(h, text) ==
    /\ text # <<>>
    /\ IF h.entry = "search_kinect_repositories" THEN Contains(Lower(text), KinectWord)
       ELSE Qualified(h.query) => Contains(Lower(text), SearchTerm(h.query))

\* the README lookup has ended, and the entry of the repository is written
HostLookedUp ==
    /\ host.at = "lookup"
    /\ ReturnToCaller
    /\ LET ended == IF raised # NoExc THEN "failed" ELSE IF result = NoData THEN "none" ELSE "text"
           h == [host EXCEPT !.lookups = Append(@, ended)]
           entry == [repo |-> host.repos[host.i],
                     readme |-> ended = "text" /\ Enriched(host, result.items)]
           listed == [h EXCEPT !.listed = Append(@, entry)]
       IN  host' =
             IF ended = "failed" /\ ~LookupGuarded(host)
             THEN Answered([h EXCEPT !.caught = raised])
             ELSE IF host.i = Len(host.repos) THEN Answered(listed)
             ELSE [listed EXCEPT !.i = @ + 1, !.at = "display"]
    /\ UNCHANGED <<environ, client, waiting>>

\* what the transport in front of the hosted client does wrong
HostFaults ==
    {Raises("Timeout"), Response(500, {}, TRUE),
     Response(403, {"rate limit", "rate limit exceeded"}, TRUE)}

HostTotals == 0..2

HostProviders ==
    {[ProviderOf(t, FALSE, TRUE, TRUE, {}, FALSE) EXCEPT !.readme = r, !.faults = HostFaults] :
        t \in HostTotals, r \in {ReadmeText, KinectReadme}}

InitHost == InitWith(HostProviders)

NextHost ==
    \/ HttpQueryGithub \/ McpQueryGithub \/ SearchKinectRepositories \/ KinectSearch
    \/ HostListed \/ HostLookup \/ HostLookedUp
    \/ Attempt \/ Backoff
    \/ DetectOwnerType \/ GetRepositoriesPage \/ SearchRepositoriesDone \/ GetRepositoryReadmeDone

SpecHost == InitHost /\ [][NextHost]_vars

-----------------------------------------------------------------------------
(* Two threads that call get_repositories on one client *)

\* the locals of the call of the running thread
Call ==
    [pc |-> pc, op |-> op, phase |-> phase, endpoint |-> endpoint, params |-> params,
     attempt |-> attempt, response |-> response, data |-> data, exc |-> exc,
     invocations |-> invocations, sleeps |-> sleeps, args |-> args,
     owner_type |-> owner_type, page |-> page, repositories |-> repositories,
     requests |-> requests, probes |-> probes, result |-> result, raised |-> raised]

\* (mutant) the loop variable of the retry loop is an attribute of the client
ResumedSharingAttempt(c) ==
    /\ pc' = c.pc
    /\ op' = c.op
    /\ phase' = c.phase
    /\ endpoint' = c.endpoint
    /\ params' = c.params
    /\ attempt' = attempt
    /\ response' = c.response
    /\ data' = c.data
    /\ exc' = c.exc
    /\ invocations' = c.invocations
    /\ sleeps' = c.sleeps
    /\ args' = c.args
    /\ owner_type' = c.owner_type
    /\ page' = c.page
    /\ repositories' = c.repositories
    /\ requests' = c.requests
    /\ probes' = c.probes
    /\ result' = c.result
    /\ raised' = c.raised

\* the thread whose call has the locals c runs: every local of get_repositories,
\* of _make_request and of the retry wrapper lives in the frame of its call
Resumed(c) ==
    /\ pc' = c.pc
    /\ op' = c.op
    /\ phase' = c.phase
    /\ endpoint' = c.endpoint
    /\ params' = c.params
    /\ attempt' = c.attempt
    /\ response' = c.response
    /\ data' = c.data
    /\ exc' = c.exc
    /\ invocations' = c.invocations
    /\ sleeps' = c.sleeps
    /\ args' = c.args
    /\ owner_type' = c.owner_type
    /\ page' = c.page
    /\ repositories' = c.repositories
    /\ requests' = c.requests
    /\ probes' = c.probes
    /\ result' = c.result
    /\ raised' = c.raised

\* the thread that runs
Running == 3 - waiting.tid

\* the kinds and page sizes the threads list the repositories of "octo" with
ThreadKinds == {"org", "user"}
ThreadPerPages == {1, 2}

\* a thread calls get_repositories. The first call of a behaviour runs alone; then
\* thread 1 makes that call again while thread 2 makes a call of its own.
ThreadCall ==
    /\ pc = "idle"
    /\ \E ot \in ThreadKinds, pp \in ThreadPerPages :
         /\ (waiting.on /\ Running = 1) =>
                (ot = waiting.alone.args.owner_type /\ pp = waiting.alone.args.per_page)
         /\ GetRepositories("octo", ot, pp)
    /\ UNCHANGED outerVars

\* the call that ran alone has ended: what it did is kept, and the two threads start
Fork ==
    /\ ~waiting.on
    /\ ReturnToCaller
    /\ waiting' = [on |-> TRUE, tid |-> 2, call |-> IdleCall, alone |-> Call]
    /\ UNCHANGED <<environ, client, host>>

\* the interpreter switches to the other thread
Switch ==
    /\ waiting.on
    /\ waiting' = [waiting EXCEPT !.tid = 3 - @, !.call = Call]
    /\ Resumed(waiting.call)
    /\ UNCHANGED <<provider, history, environ, client, host>>

\* the answers a page of the list is always given
FixedAnswers ==
    {Response(200, {}, TRUE), Response(500, {}, TRUE),
     Response(403, {"rate limit", "rate limit exceeded"}, TRUE)}

ThreadPages == 1..3

\* a list of two repositories, each page of which is answered the same every time
ThreadProviders ==
    {[ProviderOf(2, FALSE, TRUE, TRUE, {}, FALSE) EXCEPT !.fixed = f] :
        f \in [ThreadPages -> FixedAnswers]}

InitThreads ==
    /\ InitClient(ThreadProviders)
    /\ history = NoHistory
    /\ environ = ""
    /\ client = CreateGithubClient(environ)
    /\ host = NoHost
    /\ waiting = NoThread

NextThreads == ThreadCall \/ Attempt \/ Backoff \/ GetRepositoriesPage \/ Fork \/ Switch

SpecThreads == InitThreads /\ [][NextThreads]_vars

-----------------------------------------------------------------------------
(* Every facade operation, on clients that differ in their credential *)

\* the token argument of the constructor and the GITHUB_TOKEN of the environment
TokenArgs == {"", "ghp_arg"}
EnvTokens == {"", "ghp_env"}

ClientTotals == {0, 2}

ClientProviders == {ProviderOf(t, FALSE, TRUE, TRUE, PullRequestItems, FALSE) : t \in ClientTotals}

InitCredential ==
    /\ InitClient(ClientProviders)
    /\ history = NoHistory
    /\ environ \in EnvTokens
    /\ client \in {GitHubAPIClient(t, environ) : t \in TokenArgs}
    /\ host = NoHost
    /\ waiting = NoThread

NextCredential ==
    \/ CallGetRepositories \/ DetectOwnerType \/ GetRepositoriesPage
    \/ CallGetRepositoryIssues \/ GetRepositoryIssuesPage
    \/ CallGetRepositoryPullRequests \/ GetRepositoryPullRequestsPage
    \/ CallGetRepositoryContributors \/ GetRepositoryContributorsPage
    \/ CallGetRepositoryReadme \/ GetRepositoryReadmeDone
    \/ CallSearchRepositories \/ SearchRepositoriesDone
    \/ CallSearchRepositoriesPaginated \/ SearchRepositoriesPage
    \/ Attempt \/ Backoff \/ NextCall

SpecCredential == InitCredential /\ [][NextCredential]_vars

-----------------------------------------------------------------------------
(* Reading the state of a logical request *)

\* the logical request in progress has ended: _make_request returned or raised
RequestEnded == pc \in {"resume", "done"} /\ invocations > 0

-----------------------------------------------------------------------------
(* Claims about one logical request, under SpecRetry *)

\* C1 (as claimed): a connection error or timeout of the transport is retried
\* while attempts remain, so when such a failure reaches the caller of
\* _make_request it is the failure of the final allowed attempt (the 4th transport
\* call), never of an earlier one.
C1_TransientOnlyPropagatesOnFinalAttempt ==
    (RequestEnded /\ response.exc \in {"Timeout", "ConnectionError"})
        => attempt = max_retries /\ invocations = max_retries + 1

\* C2 (as claimed): when a logical request ends with a RateLimited failure on every
\* attempt, the delays slept are 1, 2, 4 in that order and it is the 5th attempt
\* whose failure propagates.
C2_FifthAttemptPropagates ==
    (RequestEnded /\ exc.cls = "RateLimitError")
        => sleeps = <<1, 2, 4>> /\ invocations = 5

\* C2 (amended): when a logical request ends with a RateLimited failure, every
\* attempt failed with a retryable failure, the delays slept are exactly 1, 2, 4 in
\* that order, and it is the 4th attempt (3 retries after the first) whose failure
\* propagates, with no further sleep.
C2_BackoffSequence ==
    (RequestEnded /\ exc.cls = "RateLimitError")
        => sleeps = <<1, 2, 4>> /\ invocations = 4 /\ attempt = 3

C2_Witness ==
    pc = "resume" /\ exc.cls = "RateLimitError" /\ Len(sleeps) = 3

\* C3: a logical request calls the transport at most 4 times and sleeps at most 3
\* times, whatever the outcomes; a success on attempt k (k = attempt + 1) returns
\* at once, after exactly k transport calls and k - 1 sleeps.
C3_AttemptBudget ==
    /\ invocations <= 4
    /\ Len(sleeps) <= 3
    /\ (RequestEnded /\ exc = NoExc) =>
           /\ FailureKind(response) = "Decoded"
           /\ invocations = attempt + 1
           /\ Len(sleeps) = attempt

C3_Witness ==
    pc = "resume" /\ exc = NoExc /\ invocations = 3 /\ Len(sleeps) = 2

\* C4: a NotFound, Malformed or Generic failure is never retried: the attempt that
\* produced it is the last transport call of the logical request, no sleep follows
\* it, and it reaches the caller as a GitHubAPIError; when it is the outcome of the
\* first attempt the request ends after exactly one transport call and no sleep.
C4_NonTransientNeverRetried ==
    (invocations > 0 /\ FailureKind(response) \in {"NotFound", "Malformed", "Generic"}) =>
        /\ pc \in {"resume", "done"}
        /\ exc.cls = "GitHubAPIError"
        /\ invocations = attempt + 1
        /\ Len(sleeps) = attempt
        /\ (attempt = 0 => invocations = 1 /\ sleeps = <<>>)

C4_Witness ==
    /\ pc = "resume"
    /\ FailureKind(response) \in {"NotFound", "Malformed", "Generic"}
    /\ invocations = 1
    /\ sleeps = <<>>

\* C5 (as claimed): a failure that leaves the retry governor on its last attempt
\* keeps its class: a Transient one reaches the caller as a transport exception and
\* a RateLimited one as a RateLimitError, never as the plain GitHubAPIError that
\* NotFound, Malformed and Generic failures are raised as.
C5_ExhaustedFailureKeepsItsTag ==
    (RequestEnded /\ attempt = max_retries) =>
        /\ (FailureKind(response) = "Transient" => IsRequestException(exc))
        /\ (FailureKind(response) = "RateLimited" => exc.cls = "RateLimitError")

-----------------------------------------------------------------------------
(* Claims about owner-type resolution, under SpecOwner *)

NotFoundAsOwner == raised.msg = "Owner not found as organization or user"

\* C6 (as claimed): a probe that failed with a Transient or RateLimited failure is
\* not taken for an absent owner: after such a probe the resolver neither raises
\* the owner-not-found error nor classifies an existing organization as a user.
\* (The claim's last clause, that the error is raised only when both probes reported
\* NotFound, says this of every other failure too.)
C6_TransientProbeIsNotAbsence ==
    (probes.org \in {"Transient", "RateLimited"} \/ probes.user \in {"Transient", "RateLimited"})
        => /\ ~NotFoundAsOwner
           /\ ~(provider.org /\ owner_type = "user")

-----------------------------------------------------------------------------
(* Claims about the page loops of the listings, under SpecList and SpecEndless *)

ListingOps == {"get_repositories", "get_repository_issues",
               "get_repository_pull_requests", "get_repository_contributors"}

\* the page requests the operation has issued
PageRequests == Cardinality({i \in DOMAIN requests : IsListing(requests[i][1])})

\* the page size sent to the provider
PageSize == Min(args.per_page, 100)

\* a listing has returned a list
ListingReturned == pc = "done" /\ op \in ListingOps /\ phase = "list" /\ raised = NoExc

\* how many of the first n items of the provider the operation keeps
KeptOf(n) ==
    IF op = "get_repository_issues" THEN n - Cardinality(provider.prs \cap (1..n)) ELSE n

\* C7 (as claimed): against a provider that holds N items, a listing that returns
\* has made exactly ceil(N/P) page requests and returns exactly N items.
C7_CeilPageRequests ==
    ListingReturned =>
        /\ PageRequests = (provider.total + PageSize - 1) \div PageSize
        /\ Len(result.items) = provider.total

\* C7 (amended): against a provider that holds N items, a listing that returns has
\* made exactly floor(N/P) + 1 page requests (one more than ceil(N/P) when P divides
\* N, N = 0 included: the loop learns that the list has ended from a short or empty
\* page), capped at 100, and returns the first min(N, 100 * P) items, get_repository_issues
\* without those that carry a pull_request field.
C7_PageRequests ==
    ListingReturned =>
        /\ PageRequests = Min(provider.total \div PageSize + 1, 100)
        /\ Len(result.items) = KeptOf(Min(provider.total, 100 * PageSize))

C7_Witness ==
    /\ ListingReturned
    /\ provider.total = 4
    /\ PageSize = 2
    /\ PageRequests = 3
    /\ op = "get_repository_contributors"
    /\ Len(result.items) = 4

\* C8: against a provider that always serves a full page, a listing never makes
\* more than 100 page requests; when the 100th page has been served it stops and
\* returns what it has accumulated (100 pages of items) as a normal result.
C8_PageCeiling ==
    /\ PageRequests <= 100
    /\ page <= 101
    /\ (pc = "done" /\ op \in ListingOps /\ phase = "list" /\ exc = NoExc) =>
           /\ raised = NoExc
           /\ PageRequests = 100
           /\ result.type = "list"
           /\ Len(result.items) = KeptOf(100 * PageSize)

C8_Witness ==
    /\ ListingReturned
    /\ provider.endless
    /\ PageRequests = 100
    /\ Len(result.items) = 100 * PageSize

-----------------------------------------------------------------------------
(* Claims about the search pager, under SpecSearch *)

SearchReturned == pc = "done" /\ op = "search_repositories_paginated" /\ raised = NoExc

\* the page sizes the requests issued so far asked for, in order
RECURSIVE AskedSizes(_)
AskedSizes(reqs) ==
    IF reqs = <<>> THEN <<>> ELSE <<reqs[1][2].per_page>> \o AskedSizes(Tail(reqs))

\* what a pager asks page after page to collect m items from a provider that
\* serves every page in full: min(100, what is still missing)
RECURSIVE ExpectedSizes(_)
ExpectedSizes(m) ==
    IF m <= 0 THEN <<>> ELSE <<Min(100, m)>> \o ExpectedSizes(m - Min(100, m))

\* the items the provider served to the requests reqs, in order
RECURSIVE Served(_)
Served(reqs) ==
    IF reqs = <<>> THEN <<>>
    ELSE PageItems(provider, reqs[1][2].page, reqs[1][2].per_page) \o Served(Tail(reqs))

\* C9: for every max_results M in 1..1000 and a provider that serves as many items
\* as it is asked for, a search that returns has made exactly ceil(M/100) requests,
\* each asking for min(100, M - items accumulated) items, and returns exactly M
\* items (100 + 100 + 50 for M = 250).
C9_SearchRequestSizes ==
    (SearchReturned /\ provider.endless /\ args.max_results \in 1..1000
        /\ FailureKind(response) = "Decoded") =>
        /\ Len(requests) = (args.max_results + 99) \div 100
        /\ AskedSizes(requests) = ExpectedSizes(args.max_results)
        /\ Len(result.items) = args.max_results
        /\ (args.max_results = 250 => AskedSizes(requests) = <<100, 100, 50>>)

C9_Witness ==
    /\ SearchReturned
    /\ provider.endless
    /\ args.max_results = 250
    /\ AskedSizes(requests) = <<100, 100, 50>>
    /\ Len(result.items) = 250

\* C10: a page request of the search pager that ends with a RateLimited failure
\* stops the pager without raising: it returns the items of the pages served
\* before, in order; when the 1st request was served a full page of 100 and the 2nd
\* is rate-limited, these are exactly the first 100 items.
C10_RateLimitSoftStop ==
    (pc = "done" /\ op = "search_repositories_paginated" /\ Len(requests) > 0
        /\ FailureKind(response) = "RateLimited") =>
        /\ raised = NoExc
        /\ result = ListData(Served(SubSeq(requests, 1, Len(requests) - 1)))
        /\ (/\ Len(requests) = 2
            /\ requests[1][2].per_page = 100
            /\ (provider.endless \/ provider.total >= 100))
               => result.items = [i \in 1..100 |-> i]

C10_Witness ==
    /\ SearchReturned
    /\ FailureKind(response) = "RateLimited"
    /\ Len(requests) = 2
    /\ Len(sleeps) = 3
    /\ result.items = [i \in 1..100 |-> i]

\* C11: whatever max_results is, values above 1000 included, the search pager
\* issues at most 10 page requests, each for at most 100 items and none with
\* per_page * page above 1000, never holds more than 1000 items, and when the
\* 10th page has been served in full with more still wanted it stops and returns
\* the 1000 items it holds as a normal result.
C11_SearchWindow ==
    /\ Len(requests) <= 10
    /\ \A i \in DOMAIN requests :
          /\ requests[i][2].per_page <= 100
          /\ requests[i][2].page <= 10
          /\ requests[i][2].per_page * requests[i][2].page <= 1000
    /\ Len(repositories) <= 1000
    /\ (pc = "done" /\ op = "search_repositories_paginated" /\ page > SearchMaxPages) =>
           /\ raised = NoExc
           /\ result.type = "list"
           /\ Len(result.items) <= 1000
           /\ (provider.endless /\ args.max_results > 1000) => Len(result.items) = 1000

C11_Witness ==
    /\ SearchReturned
    /\ args.max_results = 1100
    /\ Len(requests) = 10
    /\ page = 11
    /\ Len(result.items) = 1000

-----------------------------------------------------------------------------
(* Claims about the validation of arguments *)

\* empty or made of whitespace only
AllWhitespace(s) == s \in {"", " ", "  "}

\* the operation has called the transport or issued a logical request
Networked == requests # <<>> \/ invocations > 0 \/ sleeps # <<>>

\* the call has ended with the error of a caller's mistake
ValidationFailed == pc = "done" /\ raised.cls = "ValueError" /\ result = NoData

\* C12: get_repositories called with an owner name that is empty or all
\* whitespace, whatever the owner type argument, fails validation without calling
\* the transport: no owner-type probe and no listing request is issued.
C12_BlankOwnerFailsFast ==
    (op = "get_repositories" /\ AllWhitespace(args.owner_name)) =>
        /\ ValidationFailed
        /\ raised.msg = "Owner name cannot be empty"
        /\ ~Networked
        /\ probes = NoProbes

C12_Witness ==
    /\ op = "get_repositories"
    /\ args.owner_name = "  "
    /\ args.owner_type = "auto"
    /\ ValidationFailed
    /\ ~Networked

\* the arguments a search accepts
ValidSearchArgs ==
    /\ ~AllWhitespace(args.query)
    /\ args.sort \in {"stars", "forks", "help-wanted-issues", "updated"}
    /\ args.order \in {"asc", "desc"}

\* C13: search_repositories called with a query that is empty or all whitespace,
\* a sort outside {stars, forks, help-wanted-issues, updated} or an order outside
\* {asc, desc} fails with a validation error and no transport call; called with
\* valid arguments it issues exactly one logical request, whatever its outcome.
C13_SearchFailsFastOrAsksOnce ==
    op = "search_repositories" =>
        IF ValidSearchArgs
        THEN /\ Len(requests) = 1
             /\ IsSearch(requests[1][1])
             /\ requests[1][2].q = args.query
             /\ requests[1][2].per_page = Min(args.per_page, 100)
             /\ pc = "done" => raised.cls # "ValueError"
        ELSE /\ ValidationFailed
             /\ ~Networked

C13_InvalidWitness ==
    /\ op = "search_repositories"
    /\ args.query = "kinect"
    /\ args.sort = "stars"
    /\ args.order = "sideways"
    /\ ValidationFailed
    /\ ~Networked

C13_Witness ==
    /\ op = "search_repositories"
    /\ pc = "done"
    /\ ValidSearchArgs
    /\ Len(requests) = 1
    /\ invocations = 3
    /\ result.type = "dict"
    /\ Len(result.items) = 2

RepoOps == {"get_repository_readme", "get_repository_issues",
            "get_repository_pull_requests", "get_repository_contributors"}

\* C14 (as claimed): get_repository_readme, get_repository_issues,
\* get_repository_pull_requests and get_repository_contributors called with an
\* owner or repository name that is empty or all whitespace, and the issues and
\* pull requests listings called with a state outside {open, closed, all}, raise a
\* validation error before any network call.
C14_BlankRepoArgsFailFast ==
    (/\ op \in RepoOps
     /\ \/ AllWhitespace(args.owner_name)
        \/ AllWhitespace(args.repo_name)
        \/ /\ op \in {"get_repository_issues", "get_repository_pull_requests"}
           /\ args.state \notin {"open", "closed", "all"})
        => ValidationFailed /\ ~Networked

\* C15 (as claimed): search_repositories_paginated called with a query that is
\* empty or all whitespace, or with a sort or an order outside its enumerated set,
\* raises a validation error before any network call.
C15_PagerValidatesArgs ==
    (op = "search_repositories_paginated" /\ ~ValidSearchArgs)
        => ValidationFailed /\ ~Networked

-----------------------------------------------------------------------------
(* Claims about what the operations return *)

\* the items of the provider's list among the first n that are issues, in order
RECURSIVE IssuesAmong(_)
IssuesAmong(n) ==
    IF n = 0 THEN <<>>
    ELSE IssuesAmong(n - 1) \o (IF n \in provider.prs THEN <<>> ELSE <<n>>)

\* C16: get_repository_issues returns, across all pages and in provider order,
\* exactly the entries that carry no pull_request field; whether another page is
\* fetched is decided on the unfiltered page, so a full page with pull requests in
\* it does not end the listing early, and a page of 3 issues and 2 pull requests
\* yields exactly 3 items.
C16_IssuesWithoutPullRequests ==
    (ListingReturned /\ op = "get_repository_issues") =>
        /\ result.items = IssuesAmong(Min(provider.total, 100 * PageSize))
        /\ \A k \in DOMAIN result.items : result.items[k] \notin provider.prs
        /\ PageRequests = Min(provider.total \div PageSize + 1, 100)
        /\ (provider.total = 5 /\ PageSize = 100) =>
               PageRequests = 1 /\ result.items = <<1, 3, 5>>

C16_Witness ==
    /\ ListingReturned
    /\ op = "get_repository_issues"
    /\ provider.total = 5
    /\ provider.prs = {2, 4}
    /\ PageSize = 2
    /\ PageRequests = 3
    /\ result.items = <<1, 3, 5>>

\* C17: when the provider answers the README request with 404, NotFound,
\* get_repository_readme returns None and raises nothing, after one transport call
\* when the 404 is the first answer.
C17_ReadmeNotFoundIsNone ==
    (pc = "done" /\ op = "get_repository_readme" /\ FailureKind(response) = "NotFound") =>
        /\ raised = NoExc
        /\ result = NoData
        /\ Len(requests) = 1
        /\ invocations = attempt + 1

C17_Witness ==
    /\ pc = "done"
    /\ op = "get_repository_readme"
    /\ args.owner_name = "octo"
    /\ args.repo_name = "hello"
    /\ response.status = 404
    /\ invocations = 1
    /\ result = NoData
    /\ raised = NoExc

\* a README that is there is returned as its text
ReadmeReturned ==
    /\ pc = "done"
    /\ op = "get_repository_readme"
    /\ result = TextData(provider.readme)

-----------------------------------------------------------------------------
(* Claims about the interpretation of a response, under SpecRetry *)

\* the transport has just handed a response to _handle_response
Interpreted == pc \in {"backoff", "resume", "done"} /\ invocations > 0 /\ response.exc = "none"

\* the outcomes of _handle_response, read off what _make_request raised or returned
OutcomeRateLimited == exc.cls = "RateLimitError"
OutcomeNotFound == exc.cls = "GitHubAPIError" /\ exc.msg = "Resource not found"
OutcomeGeneric == exc.cls = "GitHubAPIError" /\ exc.msg = "GitHub API error"
OutcomeMalformed == exc.cls = "GitHubAPIError" /\ exc.msg = "Invalid JSON response"
OutcomePayload == exc = NoExc /\ data = ProviderData(provider, endpoint, params)

Outcomes ==
    {o \in {"RateLimited", "NotFound", "Generic", "Malformed", "Payload"} :
        \/ o = "RateLimited" /\ OutcomeRateLimited
        \/ o = "NotFound" /\ OutcomeNotFound
        \/ o = "Generic" /\ OutcomeGeneric
        \/ o = "Malformed" /\ OutcomeMalformed
        \/ o = "Payload" /\ OutcomePayload}

\* C18: _handle_response gives exactly one outcome per response, by the first rule
\* that matches: status 403 with the rate-limit-exhaustion text in the body is
\* RateLimited; otherwise 404 is NotFound; otherwise a status that is not a success
\* is Generic; otherwise a body that decodes is the payload and one that does not
\* is Malformed. A 403 with the text is never Generic and a 403 without it is
\* never RateLimited.
C18_FirstMatchingRule ==
    Interpreted =>
        /\ Cardinality(Outcomes) = 1
        /\ Outcomes =
              IF response.status = 403 /\ "rate limit exceeded" \in response.text
              THEN {"RateLimited"}
              ELSE IF response.status = 404 THEN {"NotFound"}
              ELSE IF response.status >= 400 THEN {"Generic"}
              ELSE IF response.json THEN {"Payload"}
              ELSE {"Malformed"}
        /\ (response.status = 403 /\ "rate limit exceeded" \in response.text) => ~OutcomeGeneric
        /\ (response.status = 403 /\ "rate limit exceeded" \notin response.text)
               => ~OutcomeRateLimited

C18_Witness ==
    /\ Interpreted
    /\ pc = "backoff"
    /\ response.status = 403
    /\ "rate limit exceeded" \in response.text
    /\ OutcomeRateLimited
    /\ ~OutcomeGeneric

\* a 403 whose body mentions a rate limit without the exhaustion text is Generic
GenericForbidden ==
    /\ Interpreted
    /\ response.status = 403
    /\ response.text = {"rate limit"}
    /\ OutcomeGeneric

-----------------------------------------------------------------------------
(* Claims about the order of the probes of _detect_owner_type, under SpecOwner *)

\* get_repositories is resolving, or has resolved, the type of its owner
Resolving == op = "get_repositories" /\ args.owner_type = "auto" /\ requests # <<>>

\* the endpoints of the logical requests issued so far, in order
Endpoints == [i \in DOMAIN requests |-> requests[i][1]]

UserProbed == \E i \in DOMAIN Endpoints : IsUserProbe(Endpoints[i])

\* C19 (as claimed): whenever the org probe fails, the resolver goes on to probe
\* the user endpoint.
C19_FailedOrgProbeProbesUser ==
    (Resolving /\ probes.org \notin {"none", "Decoded"}) =>
        Len(requests) >= 2 /\ Endpoints[2] = <<"users", args.owner_name>>

\* C19 (amended): the resolver probes the organization endpoint first. If that
\* probe returns, the owner is an organization and the user endpoint is never
\* probed, also when the name is a user as well. If it raises a GitHubAPIError (a
\* NotFound, Generic, Malformed or exhausted RateLimited failure, a timeout or a
\* connection error) the user endpoint is probed next, and the owner is a user if
\* that probe returns; if the user probe raises, the resolution fails. If the org
\* probe raises another transport exception after its retries, the resolution fails
\* with it and the user endpoint is not probed.
C19_OrgFirstThenUser ==
    Resolving =>
        /\ Endpoints[1] = <<"orgs", args.owner_name>>
        /\ \A i \in DOMAIN Endpoints :
              /\ IsOrgProbe(Endpoints[i]) => i = 1
              /\ IsUserProbe(Endpoints[i]) => i = 2 /\ probes.org \notin {"none", "Decoded"}
        /\ probes.org = "none" => Len(requests) = 1 /\ owner_type = ""
        /\ probes.org = "Decoded" =>
              /\ owner_type = "org"
              /\ ~UserProbed
              /\ Endpoints[2] = <<"orgs", args.owner_name, "repos">>
        /\ probes.org \in {"NotFound", "Generic", "Malformed", "RateLimited"} => UserProbed
        /\ (probes.org = "Transient" /\ ~UserProbed) =>
              pc = "done" /\ raised.cls = "RequestException" /\ Len(requests) = 1
        /\ probes.user = "Decoded" =>
              /\ owner_type = "user"
              /\ Endpoints[3] = <<"users", args.owner_name, "repos">>
        /\ probes.user \notin {"none", "Decoded"} =>
              pc = "done" /\ raised # NoExc /\ owner_type = "" /\ Len(requests) = 2

C19_Witness ==
    /\ Resolving
    /\ provider.org
    /\ provider.user
    /\ probes.org = "Decoded"
    /\ owner_type = "org"
    /\ ~UserProbed
    /\ pc = "done"
    /\ raised = NoExc

\* an owner that is no organization is found to be a user by the second probe
ResolvedAsUser ==
    /\ Resolving
    /\ probes.org = "NotFound"
    /\ probes.user = "Decoded"
    /\ owner_type = "user"
    /\ pc = "done"
    /\ raised = NoExc

-----------------------------------------------------------------------------
(* Claims about two resolutions of one owner, under SpecTwice *)

\* the resolution of the call in progress has ended: the owner has a type and the
\* listing has started, or the call has failed in the resolution
ResolutionEnded ==
    Resolving /\ (phase = "list" \/ (pc = "done" /\ phase \in {"detect_org", "detect_user"}))

\* the resolution before this one was of the same name and its probes were
\* answered the same, transport call by transport call
SameAsBefore ==
    /\ history.prev.made
    /\ history.prev.name = args.owner_name
    /\ history.prev.trace = history.trace

\* C20: resolving the same name twice on one client, the probes of the second
\* resolution being answered as those of the first were, gives the same
\* classification, or the same failure, both times: nothing the first call (its
\* probes, retries and listing) leaves behind changes the second.
C20_ResolutionIdempotent ==
    (ResolutionEnded /\ SameAsBefore) =>
        /\ owner_type = history.prev.kind
        /\ (IF phase = "list" THEN NoExc ELSE raised) = history.prev.raised

C20_Witness ==
    /\ ResolutionEnded
    /\ SameAsBefore
    /\ Len(history.trace) = 4
    /\ FailureKind(history.trace[1]) = "RateLimited"
    /\ owner_type = "user"
    /\ history.prev.kind = "user"

\* two resolutions that failed alike
FailedTwice ==
    /\ ResolutionEnded
    /\ SameAsBefore
    /\ NotFoundAsOwner
    /\ history.prev.raised = raised

-----------------------------------------------------------------------------
(* Claims about the edges of the page loops, under SpecList *)

\* the listing has ended and the last answer it got is a decoded page
ListingEndedOnPage ==
    pc = "done" /\ op \in ListingOps /\ phase = "list" /\ FailureKind(response) = "Decoded"

\* C21: when the provider answers the first page request of a listing with an
\* empty page (the owner or repository has no items), the listing returns the
\* empty list as a normal result, after that one page request, and raises nothing.
C21_EmptyFirstPage ==
    (ListingEndedOnPage /\ page = 1 /\ data = ListData(<<>>)) =>
        /\ raised = NoExc
        /\ result = ListData(<<>>)
        /\ PageRequests = 1

C21_Witness ==
    /\ ListingEndedOnPage
    /\ op = "get_repository_contributors"
    /\ provider.total = 0
    /\ page = 1
    /\ data = ListData(<<>>)
    /\ result = ListData(<<>>)
    /\ raised = NoExc

\* get_repositories of an owner without repositories, its type found by a probe
EmptyOwner ==
    /\ ListingEndedOnPage
    /\ op = "get_repositories"
    /\ args.owner_type = "auto"
    /\ provider.total = 0
    /\ result = ListData(<<>>)
    /\ raised = NoExc

\* C22: every page request of a listing asks for min(per_page, 100) items, so a
\* per_page above 100 is clamped without an error; and the last-page test compares
\* the length of the page with the clamped size: with per_page = 101 and 101 items
\* a first page of 100 items is not taken for the last one, a second page is
\* requested and all the items are returned.
C22_ClampedPageSize ==
    op \in ListingOps =>
        /\ \A i \in DOMAIN requests :
              IsListing(requests[i][1]) =>
                  /\ requests[i][2].per_page = Min(args.per_page, 100)
                  /\ requests[i][2].per_page <= 100
        /\ (ListingEndedOnPage /\ args.per_page > 100) =>
              /\ raised = NoExc
              /\ (Len(data.items) = 100) = (page > MaxPages)
              /\ provider.total = 101 =>
                    PageRequests = 2 /\ Len(result.items) = KeptOf(101)

C22_Witness ==
    /\ ListingEndedOnPage
    /\ op = "get_repository_pull_requests"
    /\ args.per_page = 101
    /\ provider.total = 101
    /\ requests[1][2].per_page = 100
    /\ PageRequests = 2
    /\ Len(result.items) = 101

-----------------------------------------------------------------------------
(* Claims about the time slept by one logical request, under SpecRetry *)

RECURSIVE SumSeq(_)
SumSeq(s) == IF s = <<>> THEN 0 ELSE s[1] + SumSeq(Tail(s))

\* C27: whatever the outcomes of its attempts, the sleeps of one logical request
\* add up to at most base_delay * (2^m - 1) for the m = max_retries + 1 attempts it
\* may make: with base_delay 1 and 4 attempts, never more than 15 seconds.
C27_TotalSleepBound ==
    /\ SumSeq(sleeps) <= base_delay * (Pow2(max_retries + 1) - 1)
    /\ (base_delay = 1 /\ max_retries + 1 = 4) => SumSeq(sleeps) <= 15

C27_Witness ==
    /\ RequestEnded
    /\ invocations = 4
    /\ sleeps = <<1, 2, 4>>
    /\ SumSeq(sleeps) = 7

-----------------------------------------------------------------------------
(* Claims about the failures of the search pager, under SpecSearch *)

\* C30 (as claimed): in search_repositories_paginated a NotFound, Malformed or
\* Generic failure of a page request propagates to the caller and no partial list
\* is returned, a Generic failure whose message mentions a rate limit included:
\* only a RateLimited failure is a soft stop.
C30_OnlyRateLimitedSoftStops ==
    (/\ pc = "done"
     /\ op = "search_repositories_paginated"
     /\ Len(requests) > 0
     /\ FailureKind(response) \in {"NotFound", "Malformed", "Generic"})
        => raised.cls = "GitHubAPIError" /\ result = NoData

\* the number of items the provider holds that a search can reach
Reachable(m) ==
    IF provider.endless THEN Min(m, 1000) ELSE Min(Min(m, provider.total), 1000)

\* C29 (as claimed): against a provider that answers the request for page p of
\* size s with the items at offsets (p-1)*s .. p*s-1 of its list, a search that
\* was served every page returns the first min(max_results, total, 1000) items of
\* the list, in order, none repeated and none skipped, also when the last request
\* asks for a smaller page than the earlier ones (max_results = 250).
C29_SearchReturnsPrefix ==
    (SearchReturned /\ Len(requests) > 0 /\ FailureKind(response) = "Decoded") =>
        result.items = [i \in 1..Reachable(args.max_results) |-> i]

\* what the search for 250 results returns: the results 101..150 twice
SearchRepeats ==
    /\ SearchReturned
    /\ args.max_results = 250
    /\ AskedSizes(requests) = <<100, 100, 50>>
    /\ result.items = [i \in 1..200 |-> i] \o [i \in 1..50 |-> 100 + i]

-----------------------------------------------------------------------------
(* Claims about the text of a README, under SpecReadme *)

\* C28: get_repository_readme round-trips the content: whatever the text T of the
\* README, when the provider answers with the base64 encoding of T (of its UTF-8
\* bytes) in the content field, the operation returns exactly T.
C28_ReadmeRoundTrip ==
    (/\ pc = "done"
     /\ op = "get_repository_readme"
     /\ FailureKind(response) = "Decoded"
     /\ provider.content) =>
        /\ data.items = B64Encode(Utf8Encode(provider.readme))
        /\ raised = NoExc
        /\ result = TextData(provider.readme)

C28_Witness ==
    /\ pc = "done"
    /\ op = "get_repository_readme"
    /\ FailureKind(response) = "Decoded"
    /\ provider.readme = <<8364, 233>>
    /\ Len(data.items) = 8
    /\ data.items[7] # 64
    /\ data.items[8] = 64
    /\ result = TextData(<<8364, 233>>)

-----------------------------------------------------------------------------
(* Claims about the attributes of the client, under SpecCredential *)

Authorized == \E h \in client.headers : h[1] = "Authorization"

\* the attributes are those of a client made with the token it holds
AsConstructed ==
    /\ client.base_url = "https://api.github.com"
    /\ client.headers = {<<"Accept", "application/vnd.github.v3+json">>,
                          <<"User-Agent", "Azure-Function-GitHub-Query-Client/1.0">>}
                         \cup (IF client.token # "" THEN {<<"Authorization", <<"token", client.token>>>>}
                               ELSE {})
    /\ Authorized <=> client.token # ""
    /\ environ # "" => client.token # ""

\* C26: no facade operation, whether it succeeds or fails, changes the client's
\* credential, base endpoint or default headers: every step of every operation
\* leaves them as the constructor made them, and the Authorization header is
\* there exactly when the client has a credential.
C26_ClientAttributesFixed == [][client' = client /\ AsConstructed /\ AsConstructed']_vars

\* a failed and then a successful operation have run on a client with a credential
C26_Witness ==
    /\ pc = "done"
    /\ op = "get_repository_pull_requests"
    /\ raised = NoExc
    /\ result = ListData(<<1, 2>>)
    /\ client.token = "ghp_env"
    /\ Authorized

C26_WitnessAnonymous ==
    /\ pc = "done"
    /\ raised.cls = "RateLimitError"
    /\ sleeps = <<1, 2, 4>>
    /\ client.token = ""
    /\ ~Authorized

-----------------------------------------------------------------------------
(* Claims about two calls on one client, under SpecThreads *)

\* what a call that has ended gave its caller, and what its last request took
Given(c) ==
    [args |-> c.args, result |-> c.result, raised |-> c.raised, requests |-> c.requests,
     page |-> c.page, invocations |-> c.invocations, sleeps |-> c.sleeps]

\* the calls of thread 1 that have ended
EndedOfFirst ==
    {c \in (IF Running = 1 THEN {Call} ELSE {waiting.call}) : waiting.on /\ c.pc = "done"}

\* C25: two facade operations running concurrently on one client, under any
\* interleaving of their requests, retries and backoff sleeps, each return what
\* they return when run alone: the call of thread 1, interleaved with a call of
\* thread 2, ends as the same call ended when it ran alone, with the same
\* requests, page counter, transport calls and sleeps.
C25_ConcurrentAsAlone == \A c \in EndedOfFirst : Given(c) = Given(waiting.alone)

\* thread 1 listed both repositories over three pages while thread 2, which asked
\* for pages of another size, was between two of its requests
C25_Witness ==
    /\ waiting.on
    /\ Running = 1
    /\ pc = "done"
    /\ args.per_page = 1
    /\ result = ListData(<<1, 2>>)
    /\ Len(requests) = 3
    /\ waiting.call.pc = "request"
    /\ waiting.call.args.per_page = 2
    /\ waiting.call.page = 2
    /\ waiting.call.repositories = <<1, 2>>

\* both threads ran out of retries on the same page, their sleeps interleaved
BothExhausted ==
    /\ waiting.on
    /\ pc = "done"
    /\ waiting.call.pc = "done"
    /\ raised.cls = "RateLimitError"
    /\ waiting.call.raised.cls = "RateLimitError"
    /\ sleeps = <<1, 2, 4>>
    /\ waiting.call.sleeps = <<1, 2, 4>>

-----------------------------------------------------------------------------
(* Claims about the hosting functions, under SpecHost *)

HostReturned == host.at = "returned"

\* C23: the hosting entry points map a ValueError raised by the client to a
\* 4xx-equivalent outcome and every other classified failure to a 5xx-equivalent
\* outcome; a failure of the client never produces a success (200) outcome.
C23_FailuresMapToErrorStatus ==
    (HostReturned /\ host.caught # NoExc) =>
        /\ host.body = "error"
        /\ host.status # 200
        /\ host.entry # "mcp_query_github" =>
              IF host.caught.cls = "ValueError" THEN host.status \in 400..499
              ELSE host.status \in 500..599

\* the query of spaces passed the checks of the HTTP function, the client refused
\* it without a request, and the answer is a 200
ValidationAnswered200 ==
    /\ HostReturned
    /\ host.entry = "http_query_github"
    /\ host.query = "  "
    /\ host.caught.cls = "ValueError"
    /\ host.status = 200
    /\ host.body = "result"

LookupFailed == \E k \in DOMAIN host.lookups : host.lookups[k] = "failed"

\* C24: during repository display any failure of the README lookup of one
\* repository is swallowed: that repository is still listed, without the README
\* line, all the remaining repositories are still listed, and the operation
\* neither fails nor stops.
C24_ReadmeFailureSwallowed ==
    (HostReturned /\ LookupFailed) =>
        /\ host.caught = NoExc
        /\ [k \in DOMAIN host.listed |-> host.listed[k].repo] = host.repos
        /\ \A k \in DOMAIN host.lookups : host.lookups[k] = "failed" => ~host.listed[k].readme

\* the search branch lists both repositories though the first lookup failed
SearchLookupSwallowed ==
    /\ HostReturned
    /\ Qualified(host.query)
    /\ host.lookups = <<"failed", "text">>
    /\ host.listed = <<[repo |-> 1, readme |-> FALSE], [repo |-> 2, readme |-> TRUE]>>
    /\ host.caught = NoExc

\* the kinect search, after its eight searches, lists both repositories by stars
KinectLookupSwallowed ==
    /\ HostReturned
    /\ host.entry = "search_kinect_repositories"
    /\ host.round = 8
    /\ host.lookups = <<"text", "failed">>
    /\ host.listed = <<[repo |-> 2, readme |-> TRUE], [repo |-> 1, readme |-> FALSE]>>

\* the owner branch stops at the first repository, whose lookup failed
OwnerListingCutShort ==
    /\ HostReturned
    /\ host.query = "octo"
    /\ host.repos = <<1, 2>>
    /\ host.lookups = <<"failed">>
    /\ host.listed = <<>>
    /\ host.caught.cls = "GitHubAPIError"

-----------------------------------------------------------------------------
(* Claims about the absence of a README, under SpecReadme *)

ReadmeEnded == pc = "done" /\ op = "get_repository_readme" /\ phase = "readme"

ReadmeAbsent == ReadmeEnded /\ result = NoData /\ raised = NoExc

\* C31: get_repository_readme returns the absence value only when the provider
\* reported NotFound or the decoded response has no content field: a RateLimited,
\* Malformed, Transient or Generic failure of the README request, a Generic one
\* whose text has the words "not found" included, reaches the caller as a failure.
C31_AbsenceOnlyForNotFound ==
    /\ ReadmeAbsent =>
          \/ FailureKind(response) = "NotFound"
          \/ FailureKind(response) = "Decoded" /\ "content" \notin data.keys
    /\ (ReadmeEnded /\ FailureKind(response) \in {"RateLimited", "Malformed", "Transient", "Generic"})
          => raised # NoExc /\ result = NoData

\* a 500 whose body says "not found" is taken for a missing README
GenericTakenForMissing ==
    /\ ReadmeAbsent
    /\ response.status = 500
    /\ "not found" \in response.text
    /\ exc.msg = "GitHub API error"

\* an answer without a content field gives None
BareAnswerIsNone ==
    /\ ReadmeAbsent
    /\ FailureKind(response) = "Decoded"
    /\ data = DictData({"message"}, <<>>)

-----------------------------------------------------------------------------
(* Claims about the accumulator of the search pager, under SpecSearch *)

InSearchPager == op = "search_repositories_paginated"

\* C32: in every state of search_repositories_paginated, in front of a provider
\* that never returns more items than the per_page asked, the accumulator holds at
\* most max_results items; for max_results <= 0 the pager returns an empty list
\* with no transport call at all.
C32_AccumulatorWithinMaxResults ==
    InSearchPager =>
        /\ Len(repositories) <= (IF args.max_results > 0 THEN args.max_results ELSE 0)
        /\ Len(data.items) <= params.per_page
        /\ (pc = "done" /\ raised = NoExc) => Len(result.items) <= args.max_results \/ result.items = <<>>
        /\ args.max_results <= 0 =>
              /\ pc = "done"
              /\ result = ListData(<<>>)
              /\ raised = NoExc
              /\ ~Networked

\* the accumulator is full after pages of 100, 100 and 50 items
C32_Witness ==
    /\ SearchReturned
    /\ args.max_results = 250
    /\ AskedSizes(requests) = <<100, 100, 50>>
    /\ Len(repositories) = 250
    /\ Len(result.items) = 250

\* a pager asked for a negative number of results has returned at once
NothingWanted ==
    /\ SearchReturned
    /\ args.max_results = -1
    /\ result = ListData(<<>>)
    /\ invocations = 0
    /\ requests = <<>>

-----------------------------------------------------------------------------
(* Claims about the order of the pages and of the items, under SpecShuffled *)

\* the listing requests of the operation, in the order they were issued
ListingRequests == SelectSeq(requests, LAMBDA r : IsListing(r[1]))

\* what the operation keeps of the pages 1..n of the provider, page after page
RECURSIVE PagesUpTo(_)
PagesUpTo(n) ==
    IF n = 0 THEN <<>>
    ELSE PagesUpTo(n - 1)
         \o (IF op = "get_repository_issues"
              THEN SelectSeq(PageItems(provider, n, PageSize), LAMBDA i : i \notin provider.prs)
              ELSE PageItems(provider, n, PageSize))

\* C33: the paginator requests the pages strictly in the order 1, 2, 3, ..., none
\* skipped and none requested twice as a logical request, and the sequence it
\* returns is the concatenation of the items of the pages in page order and in
\* response order: nothing is sorted again, de-duplicated or reordered.
C33_PagesInOrder ==
    (op \in ListingOps /\ phase = "list") =>
        /\ \A i \in DOMAIN ListingRequests : ListingRequests[i][2].page = i
        /\ page \in {Len(ListingRequests), Len(ListingRequests) + 1}
        /\ pc \in {"request", "backoff", "resume"} =>
              /\ page = Len(ListingRequests)
              /\ repositories = PagesUpTo(page - 1)
        /\ ListingReturned => result.items = PagesUpTo(Len(ListingRequests))

\* five items came in three pages, with their repetitions and out of order
C33_Witness ==
    /\ ListingReturned
    /\ op = "get_repository_pull_requests"
    /\ provider.shuffled
    /\ args.per_page = 2
    /\ Len(ListingRequests) = 3
    /\ result.items = <<3, 2, 1, 3, 2>>

-----------------------------------------------------------------------------
(* Claims about a failure in the middle of a listing, under SpecList *)

\* the listing has ended on a request that the retry wrapper gave up on
ListingRequestFailed ==
    /\ pc = "done"
    /\ op \in ListingOps
    /\ phase = "list"
    /\ FailureKind(response) \notin {"Decoded", "none"}

\* C34: in the page loop of get_repositories, get_repository_issues,
\* get_repository_pull_requests and get_repository_contributors a failure that the
\* retry wrapper lets through on any page, the first or a later one, makes the
\* operation fail with that failure: the items of the pages before it are never
\* returned as a partial result.
C34_NoPartialResult ==
    ListingRequestFailed =>
        /\ raised # NoExc
        /\ raised = exc
        /\ result = NoData
        /\ page = Len(SelectSeq(requests, LAMBDA r : IsListing(r[1])))

\* the third page failed after two pages of two items: nothing is returned
C34_Witness ==
    /\ ListingRequestFailed
    /\ op = "get_repository_contributors"
    /\ page = 3
    /\ repositories = <<1, 2, 3, 4>>
    /\ response.status = 500
    /\ raised.cls = "GitHubAPIError"
    /\ result = NoData

\* the first page failed
FirstPageFailed ==
    /\ ListingRequestFailed
    /\ page = 1
    /\ repositories = <<>>
    /\ raised.cls = "RateLimitError"

-----------------------------------------------------------------------------
(* Claims about when get_repositories resolves the owner type, under SpecOwner *)

IsProbe(ep) == IsOrgProbe(ep) \/ IsUserProbe(ep)

OrgProbes == {i \in DOMAIN requests : IsOrgProbe(requests[i][1])}
UserProbes == {i \in DOMAIN requests : IsUserProbe(requests[i][1])}
Listings == {i \in DOMAIN requests : IsListing(requests[i][1])}

\* C35: get_repositories resolves the owner type exactly once, and before the
\* first listing request, when the kind is "auto"; with an explicit kind (org or
\* user) it issues no probe at all; a kind outside org, user and auto fails
\* validation with no transport call; and the listing endpoint is the one of
\* organizations exactly when the resolved kind is org.
C35_ResolvedOnceBeforeListing ==
    op = "get_repositories" =>
        /\ args.owner_type = "auto" =>
              /\ Cardinality(OrgProbes) <= 1
              /\ Cardinality(UserProbes) <= 1
              /\ requests # <<>> => OrgProbes = {1}
              /\ UserProbes \subseteq {2}
              /\ \A i \in OrgProbes \cup UserProbes, j \in Listings : i < j
              /\ Listings # {} => owner_type \in {"org", "user"}
        /\ args.owner_type \in {"org", "user"} =>
              /\ OrgProbes \cup UserProbes = {}
              /\ probes = NoProbes
              /\ owner_type \in {"", args.owner_type}
        /\ (args.owner_type \notin {"org", "user", "auto"} /\ pc = "done") =>
              ValidationFailed /\ ~Networked
        /\ \A j \in Listings :
              /\ requests[j][1][1] = "orgs" <=> owner_type = "org"
              /\ requests[j][1][1] = "users" <=> owner_type = "user"
              /\ requests[j][1][2] = args.owner_name

\* "auto" was resolved with both probes, the second one found a user, and the
\* listing went to the endpoint of users
C35_Witness ==
    /\ pc = "done"
    /\ op = "get_repositories"
    /\ args.owner_type = "auto"
    /\ owner_type = "user"
    /\ Len(requests) = 3
    /\ IsOrgProbe(requests[1][1])
    /\ IsUserProbe(requests[2][1])
    /\ requests[3][1] = <<"users", "octo", "repos">>
    /\ raised = NoExc

\* an explicit kind lists without a probe
ExplicitKindListed ==
    /\ pc = "done"
    /\ op = "get_repositories"
    /\ args.owner_type = "org"
    /\ requests = <<(<<(<<"orgs", "octo", "repos">>), PageParams(1, 1, "")>>)>>
    /\ raised = NoExc

\* a kind that does not exist is refused
UnknownKindRefused ==
    /\ pc = "done"
    /\ op = "get_repositories"
    /\ args.owner_type = "team"
    /\ args.owner_name = "octo"
    /\ raised.cls = "ValueError"
    /\ requests = <<>>

-----------------------------------------------------------------------------
(* Claims about the retry budget of the requests of one operation, under SpecBudget *)

InRequest == pc \in {"request", "backoff", "resume"}

RateLimitedAnswer(t) == FailureKind(t) = "RateLimited"

\* C36: the retry budget is per logical request, not per operation: every page
\* request and every owner-type probe starts with its attempt counter at 0 and
\* sleeps base_delay first, so the retries used up by one request neither reduce
\* the attempts of the next one nor lengthen its first delay; a request is given
\* up only after max_retries + 1 transport calls of its own.
C36_BudgetPerRequest ==
    /\ (pc = "request" /\ invocations = 0) => attempt = 0 /\ sleeps = <<>>
    /\ InRequest =>
          /\ attempt = Len(sleeps)
          /\ sleeps = [i \in 1..attempt |-> base_delay * Pow2(i - 1)]
          /\ sleeps # <<>> => sleeps[1] = base_delay
          /\ invocations = attempt + (IF pc = "request" THEN 0 ELSE 1)
    /\ (pc = "resume" /\ exc.cls = "RateLimitError") =>
          /\ invocations = max_retries + 1
          /\ sleeps = <<base_delay, 2 * base_delay, 4 * base_delay>>

\* the first page took all its retries and came at the fourth call; so did the
\* second page, after the same sleeps
C36_Witness ==
    /\ pc = "resume"
    /\ op = "get_repositories"
    /\ args.owner_type = "org"
    /\ page = 2
    /\ Len(requests) = 2
    /\ Len(history.trace) = 8
    /\ \A i \in {1, 2, 3, 5, 6, 7} : RateLimitedAnswer(history.trace[i])
    /\ history.trace[4].status = 200
    /\ history.trace[8].status = 200
    /\ sleeps = <<1, 2, 4>>
    /\ invocations = 4
    /\ exc = NoExc

\* both probes and the page after them took all their retries
ProbesAndPageRetried ==
    /\ pc = "resume"
    /\ args.owner_type = "auto"
    /\ phase = "list"
    /\ Len(requests) = 3
    /\ Len(history.trace) = 12
    /\ \A i \in {1, 2, 3, 5, 6, 7, 9, 10, 11} : RateLimitedAnswer(history.trace[i])
    /\ sleeps = <<1, 2, 4>>

====
